---- MODULE Spec2Model ----
(***************************************************************************)
(* AnCLI: the review coordinator (internal/review), the store writes it    *)
(* uses (internal/storage), the session-reuse Podman driver                *)
(* (internal/sandbox/podman) and the interactive review loop (cmd/ancli).  *)
(***************************************************************************)
EXTENDS Integers, Sequences, FiniteSets, TLC

(* ------------------------------ bounds --------------------------------- *)
NumCards == 3          \* cards in the store, ids 1..NumCards
MaxReviews == 2        \* review rows written in one behaviour
MaxReps == 2           \* repetition count a card may reach
MaxSessions == 1       \* sessions started in one behaviour
MaxFaults == 1         \* store calls that fail in one behaviour
NumThreads == 2        \* goroutines calling one driver
MaxContainers == 2     \* containers one driver starts in one behaviour
MaxNow == 2            \* clock ticks that pass before a session is queued

CardIds == 1..NumCards
NoCard == 0            \* a nil *int card id
NoTime == -1           \* a nil *time.Time
ZeroTime == NoTime - 1 \* the zero time.Time

(* domain.Rating, internal/scheduler/fsrs.go (domain part) *)
Again == 1
Hard == 2
Good == 3
Easy == 4
Ratings == {Again, Hard, Good, Easy}
BadRating == Easy + 1

(* fsrs.State as stored in cards.fsrs_state *)
StNew == 0
StLearning == 1
StReview == 2
StRelearning == 3

VARIABLES
    now,        \* wall clock (time.Now())
    deck,       \* the deck row: default sandbox settings
    cards,      \* store: card id -> card row (overrides and FSRS state)
    reviews,    \* store: the reviews table, in insertion order
    sessions,   \* Service.sessions: session id -> sessionState
    nextSid,    \* number of session ids handed out so far
    ret,        \* what the last coordinator call returned
    retry,      \* a SubmitReview that failed on a store write, not yet retried
    faults,     \* store calls that have failed so far
    started     \* the sessions StartSession has handed out: Options, StartedAt, queue

svcVars == <<now, deck, cards, reviews, sessions, nextSid, ret, retry, faults, started>>

VARIABLES
    containerID,  \* Driver.containerID; 0 is the empty string
    containers,   \* podman's containers, by id: status and network setting
    dpc,          \* per goroutine: where it is inside Run or Cleanup
    dcfg,         \* per goroutine: the exec-config of its Run
    dcid,         \* per goroutine: the local containerID
    cancelled,    \* per goroutine: its call's ctx is done
    dres          \* per goroutine: what its last call returned

drvVars == <<containerID, containers, dpc, dcfg, dcid, cancelled, dres>>

VARIABLES
    lpc,        \* runReview: where the command is
    lsid,       \* runReview: session.ID, the session it holds a pointer to
    lcard,      \* runReview: the card GetNextCard returned
    n0,         \* cards the session was started with
    quitAt,     \* where the learner quit or interrupted, "" if nowhere
    ended,      \* EndSession has been invoked
    exitErr     \* the error runReview returns, "" for nil

loopVars == <<lpc, lsid, lcard, n0, quitAt, ended, exitErr>>

VARIABLES
    schedCard,  \* a caller of the scheduler: the fsrs.Card it holds
    schedRet    \* what the scheduler's last call returned to it

schedVars == <<schedCard, schedRet>>

VARIABLES
    drivers,    \* globalRegistry.drivers: name -> factory
    regMu,      \* globalRegistry.mu: the writer holding it, the readers holding it
    rpc,        \* per goroutine: where it is inside a registry call
    rcall,      \* per goroutine: the call it is in and what it read under the lock
    rres        \* per goroutine: what its last registry call returned

regVars == <<drivers, regMu, rpc, rcall, rres>>

VARIABLES
    fnArg,      \* the argument of the last call of a function of the program
    fnRet       \* what that call returned

fnVars == <<fnArg, fnRet>>

(* ------------------------------ scheduler ------------------------------ *)
(* fsrs.NewCard(): state New, no repetitions, due now, never reviewed,       *)
(* stability and difficulty 0                                                *)
NewCard(t) ==
    [Due |-> t, Stability |-> 0, Difficulty |-> 0, Reps |-> 0, Lapses |-> 0,
     State |-> StNew, LastReview |-> ZeroTime]

(* the state a rating leads to (go-fsrs state machine) *)
NextState(st, rating) ==
    CASE st = StNew -> IF rating = Easy THEN StReview ELSE StLearning
      [] st = StReview -> IF rating = Again THEN StRelearning ELSE StReview
      [] OTHER -> IF rating \in {Good, Easy} THEN StReview ELSE st

(* the interval, in clock ticks, a rating schedules; steps of minutes are 0 *)
Interval(st, rating) ==
    CASE st = StNew -> IF rating = Easy THEN 2 ELSE 0
      [] st = StReview -> rating - 1
      [] OTHER -> IF rating = Good THEN 1 ELSE IF rating = Easy THEN 2 ELSE 0

(* the stability a rating leaves, in the grain of the clock: the interval it *)
(* schedules and one more                                                    *)
Stability(c, rating) == Interval(c.State, rating) + 1

(* the difficulty a rating leaves, in grades Again..Easy: the first rating   *)
(* sets it, a later one moves it by its distance from Good                   *)
Difficulty(c, rating) ==
    LET d == IF c.State = StNew THEN Easy + 1 - rating
             ELSE c.Difficulty + Good - rating
    IN IF d < Again THEN Again ELSE IF d > Easy THEN Easy ELSE d

(* Scheduler.ReviewCard: fsrs.Next(card, time.Now(), rating) *)
ReviewCard(c, rating) ==
    [Due |-> now + Interval(c.State, rating),
     Stability |-> Stability(c, rating),
     Difficulty |-> Difficulty(c, rating),
     Reps |-> c.Reps + 1,
     Lapses |-> IF c.State = StReview /\ rating = Again THEN c.Lapses + 1 ELSE c.Lapses,
     State |-> NextState(c.State, rating),
     LastReview |-> now]

(* ------------------------------ store ---------------------------------- *)
(* Card.ToFSRSCard: the FSRS part of a card row, a nil last review as the    *)
(* zero time                                                                 *)
ToFSRSCard(row) ==
    [row.fsrs EXCEPT !.LastReview = IF @ = NoTime THEN ZeroTime ELSE @]

(* Card.UpdateFromFSRSCard: the row with its FSRS part replaced; the last    *)
(* review becomes a pointer to the card's, never nil                         *)
UpdateFromFSRSCard(row, f) == [row EXCEPT !.fsrs = f]

(* a storage.Card as a caller fills it in *)
NoTimeout == -1        \* a nil *int timeout override
CardRow(netOverride, f) ==
    [Image |-> "unset", Timeout |-> NoTimeout, NetworkEnabled |-> netOverride,
     Capabilities |-> "unset", fsrs |-> f]

(* DB.CreateCard: a row with the new-card FSRS state *)
CreateCard_KeepsSupplied(card) == card
CreateCard(card) ==
    [card EXCEPT !.fsrs = [NewCard(now) EXCEPT !.LastReview = NoTime]]

(* DB.GetCard: sql.ErrNoRows for an id that is no row *)
CardExists(id) == id \in DOMAIN cards

(* DB.GetAllCards / DB.GetCardsByDeck: ORDER BY card_key; one deck, id 1 *)
RECURSIVE CardsFrom(_)
CardsFrom(i) == IF i > Len(cards) THEN <<>> ELSE <<i>> \o CardsFrom(i + 1)
GetAllCards_Unordered ==
    IF nextSid = 0 THEN CardsFrom(1) ELSE [i \in 1..Len(cards) |-> Len(cards) + 1 - i]
GetAllCards == CardsFrom(1)
GetCardsByDeck(d) == IF d = 1 THEN CardsFrom(1) ELSE <<>>

(* ------------------------------ coordinator ---------------------------- *)
(* Service.queryCardsForSession: the loop's three `continue`s *)
KeepCard_NoDueCheck(opts, id) ==
    LET f == cards[id].fsrs IN
    /\ ~(opts.NewCardsOnly /\ f.Reps > 0)
    /\ ~(opts.ReviewCardsOnly /\ f.Reps = 0)
KeepCard_NewAlways(opts, id) ==
    LET f == cards[id].fsrs IN
    /\ ~(opts.NewCardsOnly /\ f.Reps > 0)
    /\ ~(f.Reps > 0 /\ f.Due > now)
KeepCard(opts, id) ==
    LET f == cards[id].fsrs IN
    /\ ~(opts.NewCardsOnly /\ f.Reps > 0)
    /\ ~(opts.ReviewCardsOnly /\ f.Reps = 0)
    /\ ~(f.Reps > 0 /\ f.Due > now)

RECURSIVE FilterCards(_, _)
FilterCards(opts, s) ==
    IF s = <<>> THEN <<>>
    ELSE (IF KeepCard(opts, Head(s)) THEN <<Head(s)>> ELSE <<>>)
         \o FilterCards(opts, Tail(s))

queryCardsForSession(opts) ==
    FilterCards(opts, IF opts.DeckID # 0 THEN GetCardsByDeck(opts.DeckID) ELSE GetAllCards)

(* the orders rand.Shuffle can leave a queue in *)
Perms(s) ==
    {p \in [1..Len(s) -> 1..Len(s)] : \A i, j \in 1..Len(s) : i # j => p[i] # p[j]}
Shuffles(s) == {[i \in 1..Len(s) |-> s[p[i]]] : p \in Perms(s)}

Truncate_None(q, max) == q
Truncate(q, max) == IF max > 0 /\ Len(q) > max THEN SubSeq(q, 1, max) ELSE q

NoReviewCard ==
    [ID |-> NoCard, Image |-> "", Timeout |-> 0, NetworkEnabled |-> FALSE,
     Capabilities |-> <<>>]

(* SessionStats as EndSession fills it; nil where no stats are returned *)
NoStats ==
    [nil |-> TRUE, CardsReviewed |-> 0, NewCards |-> 0, ReviewCards |-> 0,
     AgainCount |-> 0, HardCount |-> 0, GoodCount |-> 0, EasyCount |-> 0,
     AverageRating |-> 0]

(* a call's result: the error ("" for nil), from GetNextCard the card, from  *)
(* EndSession the statistics                                                 *)
Ret(op, sid, err) ==
    [op |-> op, sid |-> sid, err |-> err, cardID |-> NoCard, card |-> NoReviewCard,
     matched |-> FALSE, retried |-> FALSE, stats |-> NoStats]

NoRetry == [active |-> FALSE, sid |-> 0, cardID |-> NoCard, rating |-> 0,
            reps0 |-> 0, nrev0 |-> 0]

(* Service.StartSession *)
StartSession(opts) ==
    LET filtered == queryCardsForSession(opts)
        sid == nextSid + 1
    IN
    /\ nextSid' = sid
    /\ retry' = NoRetry
    /\ UNCHANGED <<now, deck, cards, reviews>>
    /\ IF Len(filtered) = 0
       THEN /\ ret' = Ret("StartSession", sid, "no cards available")
            /\ UNCHANGED sessions
       ELSE \E shuffled \in (IF opts.ShuffleCards THEN Shuffles(filtered) ELSE {filtered}) :
              LET cardQueue == Truncate(shuffled, opts.MaxCards) IN
              /\ sessions' = [s \in DOMAIN sessions \cup {sid} |->
                                IF s = sid
                                THEN [NetworkEnabled |-> opts.NetworkEnabled,
                                      CardsReviewed |-> 0,
                                      CardsRemaining |-> Len(cardQueue),
                                      CurrentCardID |-> NoCard,
                                      cardQueue |-> cardQueue]
                                ELSE sessions[s]]
              /\ ret' = Ret("StartSession", sid, "")

(* json.Unmarshal of a capabilities string into a nil []string: the list a   *)
(* JSON array spells; a string that is no JSON array leaves the slice nil,   *)
(* and convertToReviewCard drops the error                                   *)
Unmarshal(capStr) ==
    CASE capStr = "[]" -> <<>>
      [] capStr = "[\"NET_ADMIN\"]" -> <<"NET_ADMIN">>
      [] capStr = "[\"CHOWN\"]" -> <<"CHOWN">>
      [] OTHER -> <<>>

(* Service.convertToReviewCard: card override, else deck default *)
convertToReviewCard_DeckOnly(id, row) ==
    [ID |-> id,
     Image |-> deck.DefaultImage,
     Timeout |-> deck.DefaultTimeout,
     NetworkEnabled |-> deck.DefaultNetworkEnabled,
     Capabilities |-> Unmarshal(deck.DefaultCapabilities)]
convertToReviewCard(id, row) ==
    LET capStr == IF row.Capabilities # "unset" THEN row.Capabilities
                  ELSE deck.DefaultCapabilities
    IN
    [ID |-> id,
     Image |-> IF row.Image # "unset" THEN row.Image ELSE deck.DefaultImage,
     Timeout |-> IF row.Timeout # NoTimeout THEN row.Timeout ELSE deck.DefaultTimeout,
     NetworkEnabled |-> IF row.NetworkEnabled # "unset" THEN row.NetworkEnabled = "true"
                        ELSE deck.DefaultNetworkEnabled,
     Capabilities |-> IF capStr # "" THEN Unmarshal(capStr) ELSE <<>>]

(* Service.GetNextCard; fault = "get" is a failing store read *)
GetNextCard_Pops(sid, fault) ==
    /\ retry' = NoRetry
    /\ UNCHANGED <<now, deck, cards, reviews, nextSid>>
    /\ IF sid \notin DOMAIN sessions
       THEN /\ ret' = Ret("GetNextCard", sid, "session not found")
            /\ UNCHANGED sessions
       ELSE IF Len(sessions[sid].cardQueue) = 0
       THEN /\ ret' = Ret("GetNextCard", sid, "no more cards")
            /\ UNCHANGED sessions
       ELSE IF fault = "get"
       THEN /\ ret' = Ret("GetNextCard", sid, "failed to get card")
            /\ UNCHANGED sessions
       ELSE LET cardID == Head(sessions[sid].cardQueue) IN
            /\ sessions' = [sessions EXCEPT ![sid].CurrentCardID = cardID,
                                            ![sid].cardQueue = Tail(@)]
            /\ ret' = [Ret("GetNextCard", sid, "") EXCEPT
                         !.cardID = cardID,
                         !.card = convertToReviewCard(cardID, cards[cardID])]
GetNextCard(sid, fault) ==
    /\ retry' = NoRetry
    /\ UNCHANGED <<now, deck, cards, reviews, nextSid>>
    /\ IF sid \notin DOMAIN sessions
       THEN /\ ret' = Ret("GetNextCard", sid, "session not found")
            /\ UNCHANGED sessions
       ELSE IF Len(sessions[sid].cardQueue) = 0
       THEN /\ ret' = Ret("GetNextCard", sid, "no more cards")
            /\ UNCHANGED sessions
       ELSE IF fault = "get"
       THEN /\ ret' = Ret("GetNextCard", sid, "failed to get card")
            /\ UNCHANGED sessions
       ELSE LET cardID == Head(sessions[sid].cardQueue) IN
            /\ sessions' = [sessions EXCEPT ![sid].CurrentCardID = cardID]
            /\ ret' = [Ret("GetNextCard", sid, "") EXCEPT
                         !.cardID = cardID,
                         !.card = convertToReviewCard(cardID, cards[cardID])]

(* Service.createReviewRecord: the row handed to DB.CreateReview *)
createReviewRecord_AlwaysCode(cardID, rating, exec, before, after) ==
    [CardID |-> cardID, Rating |-> rating,
     ExecutionSuccess |-> IF exec.present THEN exec.Success ELSE FALSE,
     HasExitCode |-> TRUE,
     ExitCode |-> IF exec.present THEN exec.ExitCode ELSE 0,
     FSRSDueBefore |-> before.Due, FSRSDueAfter |-> after.Due,
     FSRSStabilityBefore |-> before.Stability, FSRSStabilityAfter |-> after.Stability,
     FSRSDifficultyBefore |-> before.Difficulty,
     FSRSDifficultyAfter |-> after.Difficulty]
createReviewRecord_AfterIsBefore(cardID, rating, exec, before, after) ==
    [CardID |-> cardID, Rating |-> rating,
     ExecutionSuccess |-> IF exec.present THEN exec.Success ELSE FALSE,
     HasExitCode |-> exec.present,
     ExitCode |-> IF exec.present THEN exec.ExitCode ELSE 0,
     FSRSDueBefore |-> before.Due, FSRSDueAfter |-> before.Due,
     FSRSStabilityBefore |-> before.Stability, FSRSStabilityAfter |-> before.Stability,
     FSRSDifficultyBefore |-> before.Difficulty,
     FSRSDifficultyAfter |-> before.Difficulty]
createReviewRecord(cardID, rating, exec, before, after) ==
    [CardID |-> cardID, Rating |-> rating,
     ExecutionSuccess |-> IF exec.present THEN exec.Success ELSE FALSE,
     HasExitCode |-> exec.present,
     ExitCode |-> IF exec.present THEN exec.ExitCode ELSE 0,
     FSRSDueBefore |-> before.Due, FSRSDueAfter |-> after.Due,
     FSRSStabilityBefore |-> before.Stability, FSRSStabilityAfter |-> after.Stability,
     FSRSDifficultyBefore |-> before.Difficulty,
     FSRSDifficultyAfter |-> after.Difficulty]

(* is this call the retry of the pending failed one? *)
IsRetry(sid, cardID, rating) ==
    retry.active /\ retry.sid = sid /\ retry.cardID = cardID /\ retry.rating = rating

(* Service.SubmitReview, "Remove card from queue": only a card at the head leaves *)
PopHead_Keep(cardQueue, cardID) == cardQueue
PopHead(cardQueue, cardID) ==
    IF Len(cardQueue) > 0 /\ Head(cardQueue) = cardID THEN Tail(cardQueue) ELSE cardQueue

(* Service.SubmitReview; fault names the store call that fails, if any *)
SubmitReview(sid, cardID, rating, exec, fault) ==
    LET r0 == [Ret("SubmitReview", sid, "") EXCEPT
                 !.cardID = cardID,
                 !.matched = sid \in DOMAIN sessions
                             /\ sessions[sid].CurrentCardID = cardID]
    IN
    /\ UNCHANGED <<now, deck, nextSid>>
    /\ IF sid \notin DOMAIN sessions
       THEN /\ ret' = [r0 EXCEPT !.err = "session not found"]
            /\ retry' = NoRetry
            /\ UNCHANGED <<cards, reviews, sessions>>
       ELSE IF ~CardExists(cardID) \/ fault = "get"
       THEN /\ ret' = [r0 EXCEPT !.err = "failed to get card"]
            /\ retry' = NoRetry
            /\ UNCHANGED <<cards, reviews, sessions>>
       ELSE IF rating \notin Ratings
       THEN /\ ret' = [r0 EXCEPT !.err = "invalid rating"]
            /\ retry' = NoRetry
            /\ UNCHANGED <<cards, reviews, sessions>>
       ELSE LET card == cards[cardID]
                fsrsCard == ToFSRSCard(card)
                scheduled == ReviewCard(fsrsCard, rating)
                updated == UpdateFromFSRSCard(card, scheduled)
                pending == IF IsRetry(sid, cardID, rating) THEN retry
                           ELSE [active |-> TRUE, sid |-> sid, cardID |-> cardID,
                                 rating |-> rating, reps0 |-> fsrsCard.Reps,
                                 nrev0 |-> Len(reviews)]
                state == sessions[sid]
            IN
            IF fault = "update"
            THEN /\ ret' = [r0 EXCEPT !.err = "failed to update card"]
                 /\ retry' = pending
                 /\ UNCHANGED <<cards, reviews, sessions>>
            ELSE IF fault = "create"
            THEN /\ cards' = [cards EXCEPT ![cardID] = updated]
                 /\ ret' = [r0 EXCEPT !.err = "failed to create review record"]
                 /\ retry' = pending
                 /\ UNCHANGED <<reviews, sessions>>
            ELSE /\ cards' = [cards EXCEPT ![cardID] = updated]
                 /\ reviews' = Append(reviews,
                        createReviewRecord(cardID, rating, exec, fsrsCard, scheduled))
                 /\ sessions' = [sessions EXCEPT ![sid] =
                        [state EXCEPT
                           !.CardsReviewed = @ + 1,
                           !.CardsRemaining = @ - 1,
                           !.CurrentCardID = NoCard,
                           !.cardQueue = PopHead(@, cardID)]]
                 /\ ret' = [r0 EXCEPT !.retried = IsRetry(sid, cardID, rating)]
                 /\ retry' = NoRetry

(* Service.EndSession: the statistics it builds; the fields it never sets   *)
(* keep Go's zero value                                                      *)
SessionStats(state) == [NoStats EXCEPT !.nil = FALSE, !.CardsReviewed = state.CardsReviewed]

(* Service.EndSession *)
EndSession_KeepsSession(sid) ==
    /\ retry' = NoRetry
    /\ UNCHANGED <<now, deck, cards, reviews, nextSid, sessions>>
    /\ IF sid \notin DOMAIN sessions
       THEN ret' = Ret("EndSession", sid, "session not found")
       ELSE ret' = [Ret("EndSession", sid, "") EXCEPT !.stats = SessionStats(sessions[sid])]
EndSession(sid) ==
    /\ retry' = NoRetry
    /\ UNCHANGED <<now, deck, cards, reviews, nextSid>>
    /\ IF sid \notin DOMAIN sessions
       THEN /\ ret' = Ret("EndSession", sid, "session not found")
            /\ UNCHANGED sessions
       ELSE /\ ret' = [Ret("EndSession", sid, "") EXCEPT
                         !.stats = SessionStats(sessions[sid])]
            /\ sessions' = [s \in DOMAIN sessions \ {sid} |-> sessions[s]]


(* ------------------------------ driver --------------------------------- *)
Threads == 1..NumThreads
NoContainer == 0

(* ExecutionConfig.Validate *)
Validate_NoTimeout(c) ==
    IF c.Image = "" THEN "image is required"
    ELSE IF c.CommandLen = 0 THEN "command is required"
    ELSE ""
Validate(c) ==
    IF c.Image = "" THEN "image is required"
    ELSE IF c.CommandLen = 0 THEN "command is required"
    ELSE IF c.Timeout <= 0 THEN "timeout must be positive"
    ELSE ""

NoConfig == [Image |-> "", CommandLen |-> 0, Timeout |-> 0, NetworkEnabled |-> FALSE]
NilResult ==
    [nil |-> TRUE, ExitCode |-> 0, Success |-> FALSE, ContainerID |-> NoContainer,
     ImageUsed |-> ""]
Result(exit, cid, image) ==
    [nil |-> FALSE, ExitCode |-> exit, Success |-> (exit = 0), ContainerID |-> cid,
     ImageUsed |-> image]
DRet(op, result, err) == [op |-> op, result |-> result, err |-> err]

IsRunning_Exists(cid) == cid # NoContainer
IsRunning(cid) == cid # NoContainer /\ containers[cid].status = "running"

(* ensureContainer, "Add network configuration": --network=none unless opted in *)
StartedContainer(config) ==
    [status |-> "running", net |-> config.NetworkEnabled, image |-> config.Image]

(* Driver.Run up to the lifecycle switch: an invalid config returns at once *)
Run(t, config) ==
    /\ dpc[t] = "idle"
    /\ cancelled' = [cancelled EXCEPT ![t] = FALSE]
    /\ IF Validate(config) # ""
       THEN /\ dres' = [dres EXCEPT ![t] = DRet("Run", NilResult, "invalid config")]
            /\ UNCHANGED <<dpc, dcfg>>
       ELSE /\ dpc' = [dpc EXCEPT ![t] = "ensure"]
            /\ dcfg' = [dcfg EXCEPT ![t] = config]
            /\ dres' = [dres EXCEPT ![t] = DRet("Run", NilResult, "")]
    /\ UNCHANGED <<containerID, containers, dcid>>

(* Driver.ensureContainer, all of it under d.mu; inspectOk and startOk are   *)
(* what the two podman commands answer                                       *)
ensureContainer(t, inspectOk, startOk) ==
    /\ dpc[t] = "ensure"
    /\ startOk => Len(containers) < MaxContainers
    /\ IF containerID # NoContainer /\ inspectOk /\ ~cancelled[t] /\ IsRunning(containerID)
       THEN /\ dpc' = [dpc EXCEPT ![t] = "read_id"]
            /\ UNCHANGED <<containerID, containers, dres, dcfg>>
       ELSE IF startOk /\ ~cancelled[t]
       THEN /\ containers' = Append(containers, StartedContainer(dcfg[t]))
            /\ containerID' = Len(containers) + 1
            /\ dpc' = [dpc EXCEPT ![t] = "read_id"]
            /\ UNCHANGED <<dres, dcfg>>
       ELSE /\ containerID' = NoContainer
            /\ dpc' = [dpc EXCEPT ![t] = "idle"]
            /\ dcfg' = [dcfg EXCEPT ![t] = NoConfig]
            /\ dres' = [dres EXCEPT ![t] =
                          DRet("Run", NilResult, "failed to ensure container")]
            /\ UNCHANGED containers
    /\ UNCHANGED <<dcid, cancelled>>

(* Driver.execInContainer: containerID := d.containerID under d.mu *)
readContainerID(t) ==
    /\ dpc[t] = "read_id"
    /\ dcid' = [dcid EXCEPT ![t] = containerID]
    /\ dpc' = [dpc EXCEPT ![t] = "exec_start"]
    /\ UNCHANGED <<containerID, containers, dcfg, cancelled, dres>>

(* the return of execInContainer: an error only for exit code -1 *)
ExecReturn_NoError(t, exit) ==
    /\ dpc' = [dpc EXCEPT ![t] = "idle"]
    /\ dcfg' = [dcfg EXCEPT ![t] = NoConfig]
    /\ dres' = [dres EXCEPT ![t] = DRet("Run", Result(exit, dcid[t], dcfg[t].Image), "")]
ExecReturn(t, exit) ==
    /\ dpc' = [dpc EXCEPT ![t] = "idle"]
    /\ dcfg' = [dcfg EXCEPT ![t] = NoConfig]
    /\ dres' = [dres EXCEPT ![t] =
                  DRet("Run", Result(exit, dcid[t], dcfg[t].Image),
                       IF exit = -1 THEN "command execution failed" ELSE "")]

(* Driver.execInContainer: cmd.Run() launches podman exec *)
execStart(t) ==
    /\ dpc[t] = "exec_start"
    /\ IF cancelled[t] THEN ExecReturn(t, -1)
       ELSE IF ~IsRunning(dcid[t]) THEN ExecReturn(t, 125)
       ELSE /\ dpc' = [dpc EXCEPT ![t] = "exec_running"]
            /\ UNCHANGED <<dcfg, dres>>
    /\ UNCHANGED <<containerID, containers, dcid, cancelled>>

(* Driver.execInContainer: cmd.Run() returns, or the deadline of execCtx     *)
(* elapses first; outcome is how the command ends                            *)
execFinish(t, outcome) ==
    /\ dpc[t] = "exec_running"
    /\ IF cancelled[t] THEN ExecReturn(t, -1)
       ELSE IF ~IsRunning(dcid[t]) THEN ExecReturn(t, 137)
       ELSE IF outcome = "timeout"
       THEN /\ dpc' = [dpc EXCEPT ![t] = "exec_timeout"]
            /\ UNCHANGED <<dcfg, dres>>
       ELSE ExecReturn(t, IF outcome = "ok" THEN 0 ELSE 1)
    /\ UNCHANGED <<containerID, containers, dcid, cancelled>>

(* Driver.execInContainer: exec.CommandContext has killed podman exec at the *)
(* deadline and cmd.Run() returns the error of a killed process              *)
execKilled(t) ==
    /\ dpc[t] = "exec_timeout"
    /\ ExecReturn(t, -1)
    /\ UNCHANGED <<containerID, containers, dcid, cancelled>>

(* Driver.Cleanup: take and clear the identity under d.mu *)
Cleanup_KeepsIdentity(t) ==
    /\ dpc[t] = "idle"
    /\ dcid' = [dcid EXCEPT ![t] = containerID]
    /\ cancelled' = [cancelled EXCEPT ![t] = FALSE]
    /\ dres' = [dres EXCEPT ![t] = DRet("Cleanup", NilResult, "")]
    /\ dpc' = [dpc EXCEPT ![t] = IF containerID = NoContainer THEN "idle" ELSE "stop"]
    /\ UNCHANGED <<containerID, containers, dcfg>>
Cleanup(t) ==
    /\ dpc[t] = "idle"
    /\ dcid' = [dcid EXCEPT ![t] = containerID]
    /\ containerID' = NoContainer
    /\ cancelled' = [cancelled EXCEPT ![t] = FALSE]
    /\ dres' = [dres EXCEPT ![t] = DRet("Cleanup", NilResult, "")]
    /\ dpc' = [dpc EXCEPT ![t] = IF containerID = NoContainer THEN "idle" ELSE "stop"]
    /\ UNCHANGED <<containers, dcfg>>

(* Driver.Cleanup: podman container stop; a failure is only logged *)
cleanupStop(t, ok) ==
    /\ dpc[t] = "stop"
    /\ containers' = IF ok /\ ~cancelled[t] /\ IsRunning(dcid[t])
                     THEN [containers EXCEPT ![dcid[t]].status = "stopped"]
                     ELSE containers
    /\ dpc' = [dpc EXCEPT ![t] = "rm"]
    /\ UNCHANGED <<containerID, dcfg, dcid, cancelled, dres>>

(* Driver.Cleanup: podman container rm; refused for a running container *)
cleanupRemove(t, ok) ==
    /\ dpc[t] = "rm"
    /\ dpc' = [dpc EXCEPT ![t] = "idle"]
    /\ IF ok /\ ~cancelled[t] /\ containers[dcid[t]].status \in {"stopped", "exited"}
       THEN /\ containers' = [containers EXCEPT ![dcid[t]].status = "removed"]
            /\ UNCHANGED dres
       ELSE /\ dres' = [dres EXCEPT ![t] =
                          DRet("Cleanup", NilResult, "failed to remove container")]
            /\ UNCHANGED containers
    /\ UNCHANGED <<containerID, dcfg, dcid, cancelled>>

(* the keep-alive process of a container ends on its own *)
ContainerExits(cid) ==
    /\ IsRunning(cid)
    /\ containers' = [containers EXCEPT ![cid].status = "exited"]
    /\ UNCHANGED <<containerID, dpc, dcfg, dcid, cancelled, dres>>

(* the caller's ctx is done while its call is under way *)
CancelCtx(t) ==
    /\ dpc[t] # "idle"
    /\ ~cancelled[t]
    /\ cancelled' = [cancelled EXCEPT ![t] = TRUE]
    /\ UNCHANGED <<containerID, containers, dpc, dcfg, dcid, dres>>

InitDriver ==
    /\ containerID = NoContainer
    /\ containers = <<>>
    /\ dpc = [t \in Threads |-> "idle"]
    /\ dcfg = [t \in Threads |-> NoConfig]
    /\ dcid = [t \in Threads |-> NoContainer]
    /\ cancelled = [t \in Threads |-> FALSE]
    /\ dres = [t \in Threads |-> DRet("none", NilResult, "")]

Configs ==
    [Image : {"", "alpine"}, CommandLen : 0..1, Timeout : -1..1, NetworkEnabled : BOOLEAN]

(* ------------------------------ registry ------------------------------- *)
NumFactories == 2      \* factory functions callers register
DriverNames == {"podman", "docker"}
NoFactory == 0         \* a nil factory

NoRegCall == [op |-> "none", name |-> "", factory |-> NoFactory, exists |-> FALSE]
RegRet(op, name, value, err) == [op |-> op, name |-> name, value |-> value, err |-> err]

(* a goroutine enters Register: mu.Lock() is granted when nobody holds the   *)
(* mutex                                                                     *)
RegisterEnter(t, name, factory) ==
    /\ rpc[t] = "idle"
    /\ regMu.writer = 0 /\ regMu.readers = {}
    /\ regMu' = [regMu EXCEPT !.writer = t]
    /\ rpc' = [rpc EXCEPT ![t] = "locked"]
    /\ rcall' = [rcall EXCEPT ![t] = [NoRegCall EXCEPT !.op = "Register", !.name = name,
                                                       !.factory = factory]]
    /\ UNCHANGED <<drivers, rres>>

(* a goroutine enters Get, Available or IsRegistered: mu.RLock() is granted  *)
(* when no writer holds the mutex                                            *)
ReadEnter(t, op, name) ==
    /\ rpc[t] = "idle"
    /\ regMu.writer = 0
    /\ regMu' = [regMu EXCEPT !.readers = @ \cup {t}]
    /\ rpc' = [rpc EXCEPT ![t] = "locked"]
    /\ rcall' = [rcall EXCEPT ![t] = [NoRegCall EXCEPT !.op = op, !.name = name]]
    /\ UNCHANGED <<drivers, rres>>

(* Register, under the lock: panics on a nil factory and on a name that is   *)
(* registered; the deferred Unlock runs in either case                       *)
Register_Overwrites(t) ==
    LET c == rcall[t] IN
    /\ rpc[t] = "locked" /\ c.op = "Register"
    /\ IF c.factory = NoFactory
       THEN /\ rres' = [rres EXCEPT ![t] =
                          RegRet("Register", c.name, NoFactory, "panic: factory is nil")]
            /\ UNCHANGED drivers
       ELSE /\ drivers' = [n \in DOMAIN drivers \cup {c.name} |->
                             IF n = c.name THEN c.factory ELSE drivers[n]]
            /\ rres' = [rres EXCEPT ![t] = RegRet("Register", c.name, c.factory, "")]
    /\ regMu' = [regMu EXCEPT !.writer = 0]
    /\ rpc' = [rpc EXCEPT ![t] = "idle"]
    /\ rcall' = [rcall EXCEPT ![t] = NoRegCall]
Register(t) ==
    LET c == rcall[t] IN
    /\ rpc[t] = "locked" /\ c.op = "Register"
    /\ IF c.factory = NoFactory
       THEN /\ rres' = [rres EXCEPT ![t] =
                          RegRet("Register", c.name, NoFactory, "panic: factory is nil")]
            /\ UNCHANGED drivers
       ELSE IF c.name \in DOMAIN drivers
       THEN /\ rres' = [rres EXCEPT ![t] =
                          RegRet("Register", c.name, NoFactory, "panic: called twice")]
            /\ UNCHANGED drivers
       ELSE /\ drivers' = [n \in DOMAIN drivers \cup {c.name} |->
                             IF n = c.name THEN c.factory ELSE drivers[n]]
            /\ rres' = [rres EXCEPT ![t] = RegRet("Register", c.name, c.factory, "")]
    /\ regMu' = [regMu EXCEPT !.writer = 0]
    /\ rpc' = [rpc EXCEPT ![t] = "idle"]
    /\ rcall' = [rcall EXCEPT ![t] = NoRegCall]

(* Get: factory, exists := drivers[name] under the read lock, then RUnlock *)
Get(t) ==
    LET c == rcall[t] IN
    /\ rpc[t] = "locked" /\ c.op = "Get"
    /\ rcall' = [rcall EXCEPT ![t] =
                    [c EXCEPT !.exists = c.name \in DOMAIN drivers,
                              !.factory = IF c.name \in DOMAIN drivers
                                          THEN drivers[c.name] ELSE NoFactory]]
    /\ regMu' = [regMu EXCEPT !.readers = @ \ {t}]
    /\ rpc' = [rpc EXCEPT ![t] = "unlocked"]
    /\ UNCHANGED <<drivers, rres>>

(* Get, outside the lock: the not-found error, or the driver factory() makes *)
GetReturn(t) ==
    LET c == rcall[t] IN
    /\ rpc[t] = "unlocked"
    /\ rres' = [rres EXCEPT ![t] =
                  IF ~c.exists THEN RegRet("Get", c.name, NoFactory, "not found")
                  ELSE RegRet("Get", c.name, c.factory, "")]
    /\ rpc' = [rpc EXCEPT ![t] = "idle"]
    /\ rcall' = [rcall EXCEPT ![t] = NoRegCall]
    /\ UNCHANGED <<drivers, regMu>>

(* Available: the registered names *)
Available(t) ==
    /\ rpc[t] = "locked" /\ rcall[t].op = "Available"
    /\ rres' = [rres EXCEPT ![t] = RegRet("Available", "", DOMAIN drivers, "")]
    /\ regMu' = [regMu EXCEPT !.readers = @ \ {t}]
    /\ rpc' = [rpc EXCEPT ![t] = "idle"]
    /\ rcall' = [rcall EXCEPT ![t] = NoRegCall]
    /\ UNCHANGED drivers

(* IsRegistered: is the name a key of the map *)
IsRegistered(t) ==
    LET c == rcall[t] IN
    /\ rpc[t] = "locked" /\ c.op = "IsRegistered"
    /\ rres' = [rres EXCEPT ![t] =
                  RegRet("IsRegistered", c.name, c.name \in DOMAIN drivers, "")]
    /\ regMu' = [regMu EXCEPT !.readers = @ \ {t}]
    /\ rpc' = [rpc EXCEPT ![t] = "idle"]
    /\ rcall' = [rcall EXCEPT ![t] = NoRegCall]
    /\ UNCHANGED drivers

InitRegistry ==
    /\ drivers = <<>>
    /\ regMu = [writer |-> 0, readers |-> {}]
    /\ rpc = [t \in Threads |-> "idle"]
    /\ rcall = [t \in Threads |-> NoRegCall]
    /\ rres = [t \in Threads |-> RegRet("none", "", NoFactory, "")]

(* ------------------------------ functions ------------------------------ *)
MaxPieces == 3         \* pieces of text in one typed line

FnRet(op, val) == [op |-> op, val |-> val]
InitFn == fnArg = <<>> /\ fnRet = FnRet("none", 0)

(* a typed line is a sequence of pieces of text; a whitespace piece is one   *)
(* whitespace character                                                      *)
Pieces == {" ", "\t", "1", "4", "5", "a", "A", "gain", "GAIN", "ood"}

(* the string a sequence of pieces spells *)
RECURSIVE Join(_)
Join(s) == IF s = <<>> THEN "" ELSE Head(s) \o Join(Tail(s))

(* strings.TrimSpace: drops the leading and the trailing whitespace *)
RECURSIVE TrimSpace(_)
TrimSpace(s) ==
    IF s = <<>> THEN s
    ELSE IF Head(s) \in {" ", "\t"} THEN TrimSpace(Tail(s))
    ELSE IF s[Len(s)] \in {" ", "\t"} THEN TrimSpace(SubSeq(s, 1, Len(s) - 1))
    ELSE s

(* domain.ParseRating: the trimmed input against the literals of the switch; *)
(* 0 is InvalidRatingError                                                   *)
ParseRating(input) ==
    LET text == Join(TrimSpace(input)) IN
    CASE text \in {"1", "again", "Again", "AGAIN", "a", "A"} -> Again
      [] text \in {"2", "hard", "Hard", "HARD", "h", "H"} -> Hard
      [] text \in {"3", "good", "Good", "GOOD", "g", "G"} -> Good
      [] text \in {"4", "easy", "Easy", "EASY", "e", "E"} -> Easy
      [] OTHER -> 0

(* deck.ValidateDeck on a deck directory: a missing directory or a missing   *)
(* required file is a validation error of the result; a file that cannot be  *)
(* parsed is an error return; otherwise Valid says that no phase found an    *)
(* error                                                                     *)
ValidateDeck(d) ==
    IF ~d.exists \/ d.missingFile THEN [Valid |-> FALSE, err |-> ""]
    ELSE IF d.unreadable THEN [Valid |-> TRUE, err |-> "failed to parse"]
    ELSE [Valid |-> d.errors = 0, err |-> ""]

(* the lint command executed with nargs arguments: what cmd.Execute returns  *)
(* and what the command prints; Run has no error result                      *)
NewLintCmd(nargs, jsonOutput, d) ==
    LET result == ValidateDeck(d) IN
    IF nargs > 1 THEN [err |-> "accepts at most 1 arg(s)", out |-> ""]
    ELSE IF result.err # "" THEN [err |-> "", out |-> "Error validating deck"]
    ELSE IF jsonOutput THEN [err |-> "", out |-> "JSON output not yet implemented"]
    ELSE IF ~result.Valid THEN [err |-> "", out |-> "Deck validation failed"]
    ELSE [err |-> "", out |-> "valid"]

(* config.Load as initializeApp calls it: for each key viper takes the       *)
(* environment variable, else the configuration file, else the default set   *)
(* by setDefaults; the flags addGlobalFlags defines are bound to nothing, so *)
(* Load never sees them                                                      *)
Load(flags, env, file) ==
    [k \in DOMAIN env |->
        IF env[k] # "unset" THEN env[k]
        ELSE IF file[k] # "unset" THEN file[k]
        ELSE "default"]

(* deck.CardSpec as validateDependencyGraph reads it: the key, and the       *)
(* prerequisites column already cut at its commas by strings.Split, each     *)
(* entry a line of pieces that strings.TrimSpace is still to trim;           *)
(* MaxPrereqs bounds the entries of all the cards of one deck together       *)
MaxDeckCards == 3
MaxPrereqs == 3
CardKeys == {"a", "b", "c"}
PrereqEntries == {<<"a">>, <<" ", "b">>, <<"c">>, <<"x">>, <<" ">>}

(* hasCycle: the depth-first search over graph from node; visited and        *)
(* recStack are the two maps the callers share, returned as they are left;   *)
(* calls counts the invocations of hasCycle this one made, itself included   *)
RECURSIVE hasCycle_VisitedMeansCycle(_, _, _, _)
hasCycle_VisitedMeansCycle(node, graph, visited, recStack) ==
    LET RECURSIVE neighbors(_, _, _, _)
        neighbors(i, v, r, n) ==
            IF i > Len(graph[node])
            THEN [ret |-> FALSE, visited |-> v, recStack |-> r \ {node}, calls |-> n]
            ELSE LET neighbor == graph[node][i] IN
                 IF neighbor \notin v
                 THEN LET sub == hasCycle_VisitedMeansCycle(neighbor, graph, v, r) IN
                      IF sub.ret
                      THEN [ret |-> TRUE, visited |-> sub.visited,
                            recStack |-> sub.recStack, calls |-> n + sub.calls]
                      ELSE neighbors(i + 1, sub.visited, sub.recStack, n + sub.calls)
                 ELSE [ret |-> TRUE, visited |-> v, recStack |-> r, calls |-> n]
    IN neighbors(1, visited \cup {node}, recStack \cup {node}, 1)

RECURSIVE hasCycle(_, _, _, _)
hasCycle(node, graph, visited, recStack) ==
    LET RECURSIVE neighbors(_, _, _, _)
        neighbors(i, v, r, n) ==
            IF i > Len(graph[node])
            THEN [ret |-> FALSE, visited |-> v, recStack |-> r \ {node}, calls |-> n]
            ELSE LET neighbor == graph[node][i] IN
                 IF neighbor \notin v
                 THEN LET sub == hasCycle(neighbor, graph, v, r) IN
                      IF sub.ret \/ neighbor \in sub.recStack
                      THEN [ret |-> TRUE, visited |-> sub.visited,
                            recStack |-> sub.recStack, calls |-> n + sub.calls]
                      ELSE neighbors(i + 1, sub.visited, sub.recStack, n + sub.calls)
                 ELSE IF neighbor \in r
                 THEN [ret |-> TRUE, visited |-> v, recStack |-> r, calls |-> n]
                 ELSE neighbors(i + 1, v, r, n)
    IN neighbors(1, visited \cup {node}, recStack \cup {node}, 1)

(* validateDependencyGraph: cards in slice order build cardMap and graph (an *)
(* entry that trims to nothing is skipped, one that names no card is         *)
(* reported as CARD003 and skipped); order is the order in which the range   *)
(* over cardMap yields its keys; CARD004 lists the keys reported as circular *)
validateDependencyGraph(cardSpecs, order) ==
    LET cardMap == {cardSpecs[i].Key : i \in 1..Len(cardSpecs)}
        prereqs(card) ==
            SelectSeq([j \in 1..Len(card.Prerequisites) |->
                          Join(TrimSpace(card.Prerequisites[j]))],
                      LAMBDA prereq : prereq # "")
        known(prereq) == prereq \in cardMap
        unknown(prereq) == prereq \notin cardMap
        RECURSIVE build(_, _, _)
        build(i, graph, missing) ==
            IF i > Len(cardSpecs) THEN [graph |-> graph, missing |-> missing]
            ELSE build(i + 1,
                       [graph EXCEPT ![cardSpecs[i].Key] = @ \o SelectSeq(prereqs(cardSpecs[i]), known)],
                       missing \o SelectSeq(prereqs(cardSpecs[i]), unknown))
        built == build(1, [k \in cardMap |-> <<>>], <<>>)
        RECURSIVE check(_, _, _, _, _)
        check(i, visited, recStack, found, calls) ==
            IF i > Len(order)
            THEN [CARD003 |-> built.missing, CARD004 |-> found, calls |-> calls]
            ELSE IF order[i] \in visited
            THEN check(i + 1, visited, recStack, found, calls)
            ELSE LET res == hasCycle(order[i], built.graph, visited, recStack) IN
                 check(i + 1, res.visited, res.recStack,
                       IF res.ret THEN Append(found, order[i]) ELSE found,
                       calls + res.calls)
    IN check(1, {}, {}, <<>>, 0)


(* ------------------------------ inputs --------------------------------- *)
SessionOptions ==
    [DeckID : {0, 1}, MaxCards : 0..NumCards, NewCardsOnly : BOOLEAN,
     ReviewCardsOnly : BOOLEAN, ShuffleCards : BOOLEAN, NetworkEnabled : BOOLEAN]

NoExec == [present |-> FALSE, Success |-> FALSE, ExitCode |-> 0]
ExecOk == [present |-> TRUE, Success |-> TRUE, ExitCode |-> 0]
Overrides == {"unset", "true", "false"}

InitStore ==
    /\ now = 0
    /\ deck = [DefaultImage |-> "alpine", DefaultTimeout |-> 30,
               DefaultNetworkEnabled |-> FALSE, DefaultCapabilities |-> "[]"]
    /\ cards = [id \in CardIds |-> CreateCard(CardRow("unset", NewCard(0)))]
    /\ reviews = <<>>

(* the stores the review command is run on: the deck's defaults vary, and    *)
(* the first card may carry a network override                               *)
InitStoreReview ==
    /\ now = 0
    /\ deck \in [DefaultImage : {"alpine"}, DefaultTimeout : {0, 30},
                 DefaultNetworkEnabled : BOOLEAN, DefaultCapabilities : {"[]"}]
    /\ \E o \in Overrides :
          cards = [id \in CardIds |->
                     CreateCard(CardRow(IF id = 1 THEN o ELSE "unset", NewCard(0)))]
    /\ reviews = <<>>

InitService ==
    /\ sessions = <<>>
    /\ nextSid = 0
    /\ ret = Ret("none", 0, "")
    /\ retry = NoRetry
    /\ faults = 0
    /\ started = <<>>

InitLoop ==
    /\ lpc = "start"
    /\ lsid = 0
    /\ lcard = NoReviewCard
    /\ n0 = 0
    /\ quitAt = ""
    /\ ended = FALSE
    /\ exitErr = ""

(* no scheduler call has been made *)
NoCall == [op |-> "none", rating |-> 0, card |-> NewCard(0), err |-> ""]

InitScheduler ==
    /\ schedCard = NewCard(0)
    /\ schedRet = NoCall

Init ==
    /\ InitStore /\ InitService /\ InitDriver
    /\ InitLoop /\ InitScheduler /\ InitRegistry /\ InitFn

StoreErrors == {"failed to get card", "failed to update card",
                "failed to create review record"}

(* a store call fails only while the budget of failures lasts *)
Faulty(fault) ==
    /\ fault # "none" => faults < MaxFaults
    /\ faults' = IF fault # "none" /\ ret'.err \in StoreErrors THEN faults + 1 ELSE faults

(* ---------------- the coordinator under any caller --------------------- *)
CallStartSession ==
    /\ \E opts \in SessionOptions : nextSid < MaxSessions /\ StartSession(opts)
    /\ UNCHANGED <<faults, started, drvVars, loopVars, schedVars, regVars, fnVars>>
CallGetNextCard ==
    /\ \E sid \in 1..MaxSessions, fault \in {"none", "get"} :
          GetNextCard(sid, fault) /\ Faulty(fault)
    /\ UNCHANGED <<started, drvVars, loopVars, schedVars, regVars, fnVars>>
CallSubmitReview ==
    /\ \E sid \in 1..MaxSessions, cardID \in 0..NumCards,
          rating \in Ratings \cup {BadRating}, exec \in {NoExec, ExecOk},
          fault \in {"none", "get", "update", "create"} :
            /\ Len(reviews) < MaxReviews
            /\ CardExists(cardID) => cards[cardID].fsrs.Reps < MaxReps
            /\ SubmitReview(sid, cardID, rating, exec, fault)
            /\ Faulty(fault)
    /\ UNCHANGED <<started, drvVars, loopVars, schedVars, regVars, fnVars>>
CallEndSession ==
    /\ \E sid \in 1..MaxSessions : EndSession(sid)
    /\ UNCHANGED <<faults, started, drvVars, loopVars, schedVars, regVars, fnVars>>

Next == CallStartSession \/ CallGetNextCard \/ CallSubmitReview \/ CallEndSession

vars == <<svcVars, drvVars, loopVars, schedVars, regVars, fnVars>>

Spec == Init /\ [][Next]_vars

(* ---------------- one driver under concurrent callers ------------------ *)
Outcomes == {"ok", "fail", "timeout"}

DriverRun ==
    /\ \E t \in Threads, config \in Configs : Run(t, config)
    /\ UNCHANGED <<svcVars, loopVars, schedVars, regVars, fnVars>>
DriverEnsure ==
    /\ \E t \in Threads, inspectOk, startOk \in BOOLEAN :
          ensureContainer(t, inspectOk, startOk)
    /\ UNCHANGED <<svcVars, loopVars, schedVars, regVars, fnVars>>
DriverReadID ==
    /\ \E t \in Threads : readContainerID(t)
    /\ UNCHANGED <<svcVars, loopVars, schedVars, regVars, fnVars>>
DriverExecStart ==
    /\ \E t \in Threads : execStart(t)
    /\ UNCHANGED <<svcVars, loopVars, schedVars, regVars, fnVars>>
DriverExecFinish ==
    /\ \E t \in Threads, outcome \in Outcomes : execFinish(t, outcome)
    /\ UNCHANGED <<svcVars, loopVars, schedVars, regVars, fnVars>>
DriverExecKilled ==
    /\ \E t \in Threads : execKilled(t)
    /\ UNCHANGED <<svcVars, loopVars, schedVars, regVars, fnVars>>
DriverCleanup ==
    /\ \E t \in Threads : Cleanup(t)
    /\ UNCHANGED <<svcVars, loopVars, schedVars, regVars, fnVars>>
DriverStop ==
    /\ \E t \in Threads, ok \in BOOLEAN : cleanupStop(t, ok)
    /\ UNCHANGED <<svcVars, loopVars, schedVars, regVars, fnVars>>
DriverRemove ==
    /\ \E t \in Threads, ok \in BOOLEAN : cleanupRemove(t, ok)
    /\ UNCHANGED <<svcVars, loopVars, schedVars, regVars, fnVars>>
EnvContainerExits ==
    /\ \E cid \in 1..Len(containers) : ContainerExits(cid)
    /\ UNCHANGED <<svcVars, loopVars, schedVars, regVars, fnVars>>
EnvCancel ==
    /\ \E t \in Threads : CancelCtx(t)
    /\ UNCHANGED <<svcVars, loopVars, schedVars, regVars, fnVars>>

NextDriver ==
    \/ DriverRun \/ DriverEnsure \/ DriverReadID \/ DriverExecStart \/ DriverExecFinish
    \/ DriverExecKilled
    \/ DriverCleanup \/ DriverStop \/ DriverRemove \/ EnvContainerExits \/ EnvCancel

SpecDriver == Init /\ [][NextDriver]_vars

(* ---------------- the review command: NewReviewCmd and runReview -------- *)
Main == 1      \* the goroutine the command runs on

(* the lines the learner types at the rating prompt, each one piece of text *)
RatingInputs == {"1", "h", "Good", "4", "5", "q", "quit", "eof"}

(* runReview: sandbox.ExecutionConfig built from the card *)
sandboxConfig(card) ==
    [Image |-> card.Image, CommandLen |-> 1, Timeout |-> card.Timeout,
     NetworkEnabled |-> card.NetworkEnabled]

(* runReview: domain.ExecutionResult built from the sandbox result, nil for nil *)
executionResult(result) ==
    IF result.nil THEN NoExec
    ELSE [present |-> TRUE, Success |-> result.Success, ExitCode |-> result.ExitCode]

(* runReview: flags to options, StartSession *)
ReviewStart ==
    /\ lpc = "start"
    /\ \E opts \in SessionOptions : StartSession(opts)
    /\ IF ret'.err # ""
       THEN /\ exitErr' = "failed to start review session"
            /\ lpc' = "close"
            /\ UNCHANGED <<lsid, n0>>
       ELSE /\ lsid' = ret'.sid
            /\ n0' = sessions'[ret'.sid].CardsRemaining
            /\ lpc' = "loop"
            /\ UNCHANGED exitErr
    /\ UNCHANGED <<faults, started, lcard, quitAt, ended, drvVars, schedVars, regVars, fnVars>>

(* runReview: the loop condition on session.CardsRemaining, then GetNextCard *)
ReviewNext ==
    /\ lpc = "loop"
    /\ IF sessions[lsid].CardsRemaining > 0
       THEN /\ \E fault \in {"none", "get"} : GetNextCard(lsid, fault) /\ Faulty(fault)
            /\ IF ret'.err = ""
               THEN lcard' = ret'.card /\ lpc' = "ready" /\ UNCHANGED exitErr
               ELSE IF ret'.err = "no more cards"
               THEN lpc' = "cleanup" /\ UNCHANGED <<lcard, exitErr>>
               ELSE /\ exitErr' = "failed to get next card"
                    /\ lpc' = "close"
                    /\ UNCHANGED lcard
       ELSE /\ lpc' = "cleanup"
            /\ UNCHANGED <<svcVars, lcard, exitErr>>
    /\ UNCHANGED <<started, lsid, n0, quitAt, ended, drvVars, schedVars, regVars, fnVars>>

(* runReview: the ready prompt; Enter launches the command in the sandbox *)
ReviewReady ==
    /\ lpc = "ready"
    /\ \E input \in {"", "q", "quit", "eof"} :
          IF input = ""
          THEN /\ Run(Main, sandboxConfig(lcard))
               /\ lpc' = "run"
               /\ UNCHANGED quitAt
          ELSE /\ lpc' = "cleanup"
               /\ quitAt' = "ready"
               /\ UNCHANGED drvVars
    /\ UNCHANGED <<svcVars, lsid, lcard, n0, ended, exitErr, schedVars, regVars, fnVars>>

(* app.Sandbox.Run and Cleanup at work on the command's goroutine *)
MainEnsure ==
    /\ \E inspectOk, startOk \in BOOLEAN : ensureContainer(Main, inspectOk, startOk)
    /\ UNCHANGED <<svcVars, loopVars, schedVars, regVars, fnVars>>
MainReadID == readContainerID(Main) /\ UNCHANGED <<svcVars, loopVars, schedVars, regVars, fnVars>>
MainExecStart == execStart(Main) /\ UNCHANGED <<svcVars, loopVars, schedVars, regVars, fnVars>>
MainExecFinish ==
    /\ \E outcome \in Outcomes : execFinish(Main, outcome)
    /\ UNCHANGED <<svcVars, loopVars, schedVars, regVars, fnVars>>
MainExecKilled == execKilled(Main) /\ UNCHANGED <<svcVars, loopVars, schedVars, regVars, fnVars>>
MainStop ==
    /\ \E ok \in BOOLEAN : cleanupStop(Main, ok)
    /\ UNCHANGED <<svcVars, loopVars, schedVars, regVars, fnVars>>
MainRemove ==
    /\ \E ok \in BOOLEAN : cleanupRemove(Main, ok)
    /\ UNCHANGED <<svcVars, loopVars, schedVars, regVars, fnVars>>

(* runReview: Run has returned; whatever it returned, the rating is asked for *)
ReviewRan ==
    /\ lpc = "run"
    /\ dpc[Main] = "idle"
    /\ lpc' = "rating"
    /\ UNCHANGED <<svcVars, drvVars, lsid, lcard, n0, quitAt, ended, exitErr, schedVars, regVars, fnVars>>

(* runReview: the rating prompt and, for a valid rating, SubmitReview *)
ReviewRate ==
    /\ lpc = "rating"
    /\ \E input \in RatingInputs, fault \in {"none", "get", "update", "create"} :
          IF input = "eof"
          THEN /\ exitErr' = "failed to read rating"
               /\ lpc' = "close"
               /\ quitAt' = "rating"
               /\ UNCHANGED svcVars
          ELSE IF input \in {"q", "quit"}
          THEN /\ lpc' = "cleanup"
               /\ quitAt' = "rating"
               /\ UNCHANGED <<svcVars, exitErr>>
          ELSE IF ParseRating(<<input>>) = 0
          THEN UNCHANGED <<svcVars, lpc, quitAt, exitErr>>
          ELSE /\ SubmitReview(lsid, lcard.ID, ParseRating(<<input>>),
                               executionResult(dres[Main].result), fault)
               /\ Faulty(fault)
               /\ IF ret'.err # ""
                  THEN exitErr' = "failed to submit review" /\ lpc' = "close"
                  ELSE lpc' = "counted" /\ UNCHANGED exitErr
               /\ UNCHANGED quitAt
    /\ UNCHANGED <<started, drvVars, lsid, lcard, n0, ended, schedVars, regVars, fnVars>>

(* runReview: cardsReviewed++; session.CardsRemaining-- on the Session that  *)
(* StartSession returned, which is the coordinator's own                     *)
ReviewCount ==
    /\ lpc = "counted"
    /\ sessions' = [sessions EXCEPT ![lsid].CardsRemaining = @ - 1]
    /\ lpc' = "loop"
    /\ UNCHANGED <<now, deck, cards, reviews, nextSid, ret, retry, faults, started,
                   drvVars, lsid, lcard, n0, quitAt, ended, exitErr, schedVars, regVars, fnVars>>

(* runReview, label cleanup: EndSession *)
ReviewCleanup ==
    /\ lpc = "cleanup"
    /\ EndSession(lsid)
    /\ ended' = TRUE
    /\ lpc' = "close"
    /\ UNCHANGED <<faults, started, drvVars, lsid, lcard, n0, quitAt, exitErr, schedVars, regVars, fnVars>>

(* NewReviewCmd: the deferred app.Close calls Sandbox.Cleanup *)
ReviewClose_NoCleanup ==
    /\ lpc = "close"
    /\ lpc' = "closing"
    /\ UNCHANGED <<svcVars, drvVars, lsid, lcard, n0, quitAt, ended, exitErr, schedVars, regVars, fnVars>>
ReviewClose ==
    /\ lpc = "close"
    /\ Cleanup(Main)
    /\ lpc' = "closing"
    /\ UNCHANGED <<svcVars, lsid, lcard, n0, quitAt, ended, exitErr, schedVars, regVars, fnVars>>

(* the command returns *)
ReviewExit ==
    /\ lpc = "closing"
    /\ dpc[Main] = "idle"
    /\ lpc' = "done"
    /\ UNCHANGED <<svcVars, drvVars, lsid, lcard, n0, quitAt, ended, exitErr, schedVars, regVars, fnVars>>

(* SIGINT while a card is current: no handler is installed and ctx is        *)
(* context.Background(), so the process ends there; the signal reaches the   *)
(* whole foreground process group, the podman exec child included            *)
Interrupt ==
    /\ lpc \in {"ready", "run", "rating"}
    /\ lpc' = "killed"
    /\ quitAt' = IF lpc = "run" THEN "exec" ELSE lpc
    /\ dpc' = [dpc EXCEPT ![Main] = "idle"]
    /\ dcfg' = [dcfg EXCEPT ![Main] = NoConfig]
    /\ UNCHANGED <<svcVars, containerID, containers, dcid, cancelled, dres,
                   lsid, lcard, n0, ended, exitErr, schedVars, regVars, fnVars>>

NextReview ==
    \/ ReviewStart \/ ReviewNext \/ ReviewReady \/ ReviewRan \/ ReviewRate
    \/ ReviewCount \/ ReviewCleanup \/ ReviewClose \/ ReviewExit \/ Interrupt
    \/ MainEnsure \/ MainReadID \/ MainExecStart \/ MainExecFinish \/ MainExecKilled
    \/ MainStop \/ MainRemove

InitReview ==
    /\ InitStoreReview /\ InitService /\ InitDriver
    /\ InitLoop /\ InitScheduler /\ InitRegistry /\ InitFn

SpecReview == InitReview /\ [][NextReview]_vars

(* ---------------- queue construction over stores with a history -------- *)
(* the rows an earlier session, at time 0, left: card id reviewed once with  *)
(* rated[id], or never for 0, its review row written with it                 *)
RECURSIVE ReviewsFrom(_, _)
ReviewsFrom(i, rated) ==
    IF i > NumCards THEN <<>>
    ELSE (IF rated[i] = 0 THEN <<>>
          ELSE <<createReviewRecord(i, rated[i], NoExec, NewCard(0),
                                    ReviewCard(NewCard(0), rated[i]))>>)
         \o ReviewsFrom(i + 1, rated)

InitStoreQueue ==
    /\ now = 0
    /\ deck = [DefaultImage |-> "alpine", DefaultTimeout |-> 30,
               DefaultNetworkEnabled |-> FALSE, DefaultCapabilities |-> "[]"]
    /\ \E rated \in [CardIds -> {0} \cup Ratings] :
          /\ cards = [id \in CardIds |->
                        LET created == CreateCard(CardRow("unset", NewCard(0))) IN
                        IF rated[id] = 0 THEN created
                        ELSE UpdateFromFSRSCard(created,
                                                ReviewCard(ToFSRSCard(created), rated[id]))]
          /\ reviews = ReviewsFrom(1, rated)

InitQueue ==
    /\ InitStoreQueue /\ InitService /\ InitDriver
    /\ InitLoop /\ InitScheduler /\ InitRegistry /\ InitFn

(* time.Now() moves on between the calls *)
Tick ==
    /\ now < MaxNow
    /\ now' = now + 1
    /\ UNCHANGED <<deck, cards, reviews, sessions, nextSid, ret, retry, faults,
                   started, drvVars, loopVars, schedVars, regVars, fnVars>>

NextQueue == Tick \/ CallStartSession \/ CallGetNextCard \/ CallEndSession

SpecQueue == InitQueue /\ [][NextQueue]_vars

(* ---------------- two sessions built on one store ------------------------ *)
MaxPairSessions == MaxSessions + 1

(* the options the sessions are built with: the filters, the cap, the shuffle *)
PairOptions ==
    {o \in SessionOptions : ~o.NetworkEnabled /\ o.MaxCards \in {0, NumCards - 1}}

(* StartSession, with the Session it returns kept: Options, StartedAt and    *)
(* the queue built for it                                                    *)
PairStartSession ==
    /\ nextSid < MaxPairSessions
    /\ \E opts \in PairOptions :
          /\ StartSession(opts)
          /\ started' = IF ret'.err # "" THEN started
                        ELSE Append(started,
                                    [Options |-> opts, StartedAt |-> now,
                                     cardQueue |-> sessions'[ret'.sid].cardQueue])
    /\ UNCHANGED <<faults, drvVars, loopVars, schedVars, regVars, fnVars>>

NextPair == Tick \/ PairStartSession

SpecPair == InitQueue /\ [][NextPair]_vars

(* ---------------- two sessions under any caller ------------------------- *)
SessionIds == 1..MaxPairSessions

(* the options of the two sessions: unfiltered, unshuffled, capped one below *)
(* the size of the store                                                     *)
TwoOptions ==
    {o \in SessionOptions :
        /\ ~o.ShuffleCards /\ ~o.NewCardsOnly /\ ~o.ReviewCardsOnly /\ ~o.NetworkEnabled
        /\ o.DeckID = 0 /\ o.MaxCards = NumCards - 1}

TwoStartSession ==
    /\ \E opts \in TwoOptions : nextSid < MaxPairSessions /\ StartSession(opts)
    /\ UNCHANGED <<faults, started, drvVars, loopVars, schedVars, regVars, fnVars>>
TwoGetNextCard ==
    /\ \E sid \in SessionIds, fault \in {"none", "get"} :
          GetNextCard(sid, fault) /\ Faulty(fault)
    /\ UNCHANGED <<started, drvVars, loopVars, schedVars, regVars, fnVars>>
TwoSubmitReview ==
    /\ \E sid \in SessionIds, cardID \in 0..NumCards,
          rating \in {Again, Easy, BadRating}, exec \in {NoExec},
          fault \in {"none", "get", "update", "create"} :
            /\ Len(reviews) < MaxReviews
            /\ CardExists(cardID) => cards[cardID].fsrs.Reps < MaxReps
            /\ SubmitReview(sid, cardID, rating, exec, fault)
            /\ Faulty(fault)
    /\ UNCHANGED <<started, drvVars, loopVars, schedVars, regVars, fnVars>>
TwoEndSession ==
    /\ \E sid \in SessionIds : EndSession(sid)
    /\ UNCHANGED <<faults, started, drvVars, loopVars, schedVars, regVars, fnVars>>

NextTwo == TwoStartSession \/ TwoGetNextCard \/ TwoSubmitReview \/ TwoEndSession

SpecTwo == Init /\ [][NextTwo]_vars

(* ---------------- a store that is filled while it is reviewed ------------ *)
(* the cards callers hand to CreateCard: FSRS fields of every kind           *)
CardInputs ==
    {CardRow("unset", f) :
        f \in {NewCard(0),
               [NewCard(0) EXCEPT !.Reps = MaxReps],
               [NewCard(0) EXCEPT !.State = StReview],
               [NewCard(0) EXCEPT !.LastReview = 0]}}

InitStoreEmpty ==
    /\ now = 0
    /\ deck = [DefaultImage |-> "alpine", DefaultTimeout |-> 30,
               DefaultNetworkEnabled |-> FALSE, DefaultCapabilities |-> "[]"]
    /\ cards = <<>>
    /\ reviews = <<>>

InitCards ==
    /\ InitStoreEmpty /\ InitService /\ InitDriver
    /\ InitLoop /\ InitScheduler /\ InitRegistry /\ InitFn

(* DB.CreateCard: the next row id *)
CardsCreate ==
    /\ Len(cards) < NumCards
    /\ \E card \in CardInputs : cards' = Append(cards, CreateCard(card))
    /\ UNCHANGED <<now, deck, reviews, sessions, nextSid, ret, retry, faults, started,
                   drvVars, loopVars, schedVars, regVars, fnVars>>

(* the options of a session over all the cards there are, in their order *)
CardsOptions ==
    {o \in SessionOptions :
        /\ ~o.ShuffleCards /\ ~o.NewCardsOnly /\ ~o.ReviewCardsOnly /\ ~o.NetworkEnabled
        /\ o.DeckID = 0 /\ o.MaxCards = 0}

CardsStartSession ==
    /\ \E opts \in CardsOptions : nextSid < MaxSessions /\ StartSession(opts)
    /\ UNCHANGED <<faults, started, drvVars, loopVars, schedVars, regVars, fnVars>>

NextCards ==
    \/ CardsCreate \/ CardsStartSession
    \/ CallGetNextCard \/ CallSubmitReview \/ CallEndSession

SpecCards == InitCards /\ [][NextCards]_vars

(* ---------------- one driver given commands with differing images ------- *)
ImageRun ==
    /\ \E t \in Threads, image \in {"alpine", "ubuntu"} :
          Run(t, [Image |-> image, CommandLen |-> 1, Timeout |-> 1,
                  NetworkEnabled |-> FALSE])
    /\ UNCHANGED <<svcVars, loopVars, schedVars, regVars, fnVars>>

NextImage ==
    \/ ImageRun \/ DriverEnsure \/ DriverReadID \/ DriverExecStart \/ DriverExecFinish
    \/ DriverExecKilled \/ EnvContainerExits

SpecImage == Init /\ [][NextImage]_vars

(* ---------------- stores whose first card overrides the deck ------------ *)
InitStoreMerge ==
    /\ now = 0
    /\ deck \in {[DefaultImage |-> "alpine", DefaultTimeout |-> 30,
                  DefaultNetworkEnabled |-> FALSE, DefaultCapabilities |-> "[]"],
                 [DefaultImage |-> "busybox", DefaultTimeout |-> 10,
                  DefaultNetworkEnabled |-> TRUE, DefaultCapabilities |-> "[\"CHOWN\"]"],
                 [DefaultImage |-> "busybox", DefaultTimeout |-> 10,
                  DefaultNetworkEnabled |-> TRUE, DefaultCapabilities |-> ""]}
    /\ \E image \in {"unset", "ubuntu"}, timeout \in {NoTimeout, 0, 60}, o \in Overrides,
          caps \in {"unset", "", "[]", "[\"NET_ADMIN\"]", "NET_ADMIN"} :
          cards = [id \in CardIds |->
                     CreateCard(IF id # 1 THEN CardRow("unset", NewCard(0))
                                ELSE [CardRow(o, NewCard(0)) EXCEPT
                                        !.Image = image, !.Timeout = timeout,
                                        !.Capabilities = caps])]
    /\ reviews = <<>>

InitMerge ==
    /\ InitStoreMerge /\ InitService /\ InitDriver
    /\ InitLoop /\ InitScheduler /\ InitRegistry /\ InitFn

NextMerge == CardsStartSession \/ CallGetNextCard \/ CallEndSession

SpecMerge == InitMerge /\ [][NextMerge]_vars

(* ---------------- callers of the functions of the program --------------- *)
CallParseRating ==
    /\ fnRet.op = "none"
    /\ \E input \in UNION {[1..n -> Pieces] : n \in 0..MaxPieces} :
          /\ fnArg' = input
          /\ fnRet' = FnRet("ParseRating", ParseRating(input))
    /\ UNCHANGED <<svcVars, drvVars, loopVars, schedVars, regVars>>

(* run: `ancli deck lint` on a deck directory; the exit status is 1 when     *)
(* cmd.Execute returns an error and 0 otherwise                              *)
CallLint ==
    /\ fnRet.op = "none"
    /\ \E nargs \in 0..2, jsonOutput \in BOOLEAN,
          d \in [exists : BOOLEAN, missingFile : BOOLEAN, unreadable : BOOLEAN,
                 errors : 0..1] :
          /\ fnArg' = [nargs |-> nargs, json |-> jsonOutput, deck |-> d]
          /\ fnRet' = FnRet("lint", IF NewLintCmd(nargs, jsonOutput, d).err # ""
                                    THEN 1 ELSE 0)
    /\ UNCHANGED <<svcVars, drvVars, loopVars, schedVars, regVars>>

(* initializeApp: the configuration of a run with these flags, environment   *)
(* and configuration file; sandbox.default_image has no flag                 *)
CallLoad ==
    /\ fnRet.op = "none"
    /\ \E flags \in [{"database.path", "sandbox.default_image"} -> {"unset", "flag"}],
          env \in [{"database.path", "sandbox.default_image"} -> {"unset", "env"}],
          file \in [{"database.path", "sandbox.default_image"} -> {"unset", "file"}] :
          /\ flags["sandbox.default_image"] = "unset"
          /\ fnArg' = [flags |-> flags, env |-> env, file |-> file]
          /\ fnRet' = FnRet("Load", Load(flags, env, file))
    /\ UNCHANGED <<svcVars, drvVars, loopVars, schedVars, regVars>>

CallValidateDependencyGraph ==
    /\ fnRet.op = "none"
    /\ \E n \in 1..MaxDeckCards, m \in 0..MaxPrereqs :
          \E keys \in [1..n -> CardKeys], entries \in [1..m -> PrereqEntries],
             card \in [1..m -> 1..n] :
             /\ \A j \in 1..m : j < m => card[j] <= card[j + 1]
             /\ LET cardSpecs ==
                        [i \in 1..n |->
                            [Key |-> keys[i],
                             Prerequisites |->
                                 SubSeq(entries,
                                        Cardinality({j \in 1..m : card[j] < i}) + 1,
                                        Cardinality({j \in 1..m : card[j] <= i}))]]
                IN \E order \in [1..Cardinality({keys[i] : i \in 1..n}) -> CardKeys] :
                      /\ {order[i] : i \in 1..Len(order)} = {keys[i] : i \in 1..n}
                      /\ fnArg' = [cards |-> cardSpecs, order |-> order]
                      /\ fnRet' = FnRet("validateDependencyGraph",
                                        validateDependencyGraph(cardSpecs, order))
    /\ UNCHANGED <<svcVars, drvVars, loopVars, schedVars, regVars>>

NextFn == CallParseRating \/ CallLint \/ CallLoad \/ CallValidateDependencyGraph

SpecFn == Init /\ [][NextFn]_vars

(* ---------------- the registry under concurrent callers ----------------- *)
RegistryRegisterEnter ==
    /\ \E t \in Threads, name \in DriverNames, factory \in 0..NumFactories :
          RegisterEnter(t, name, factory)
    /\ UNCHANGED <<svcVars, drvVars, loopVars, schedVars, fnVars>>
RegistryReadEnter ==
    /\ \E t \in Threads, op \in {"Get", "Available", "IsRegistered"},
          name \in DriverNames :
          ReadEnter(t, op, IF op = "Available" THEN "" ELSE name)
    /\ UNCHANGED <<svcVars, drvVars, loopVars, schedVars, fnVars>>
RegistryRegister ==
    /\ \E t \in Threads : Register(t)
    /\ UNCHANGED <<svcVars, drvVars, loopVars, schedVars, fnVars>>
RegistryGet ==
    /\ \E t \in Threads : Get(t)
    /\ UNCHANGED <<svcVars, drvVars, loopVars, schedVars, fnVars>>
RegistryGetReturn ==
    /\ \E t \in Threads : GetReturn(t)
    /\ UNCHANGED <<svcVars, drvVars, loopVars, schedVars, fnVars>>
RegistryAvailable ==
    /\ \E t \in Threads : Available(t)
    /\ UNCHANGED <<svcVars, drvVars, loopVars, schedVars, fnVars>>
RegistryIsRegistered ==
    /\ \E t \in Threads : IsRegistered(t)
    /\ UNCHANGED <<svcVars, drvVars, loopVars, schedVars, fnVars>>

NextRegistry ==
    \/ RegistryRegisterEnter \/ RegistryReadEnter \/ RegistryRegister
    \/ RegistryGet \/ RegistryGetReturn \/ RegistryAvailable \/ RegistryIsRegistered

SpecRegistry == Init /\ [][NextRegistry]_vars

(* ---------------- a caller of the scheduler ------------------------------ *)
(* card := sched.NewCard() *)
SchedulerNewCard ==
    /\ schedCard' = NewCard(now)
    /\ schedRet' = [op |-> "NewCard", rating |-> 0, card |-> NewCard(now), err |-> ""]
    /\ UNCHANGED <<svcVars, drvVars, loopVars, regVars, fnVars>>

(* result := sched.ReviewCard(card, rating), for any value of fsrs.Rating;   *)
(* the call has no error result                                              *)
SchedulerReviewCard ==
    /\ schedCard.Reps < MaxReps
    /\ \E rating \in Ratings \cup {BadRating} :
          schedRet' = [op |-> "ReviewCard", rating |-> rating,
                       card |-> ReviewCard(schedCard, rating), err |-> ""]
    /\ UNCHANGED <<schedCard, svcVars, drvVars, loopVars, regVars, fnVars>>

(* card = result.Card *)
SchedulerKeep ==
    /\ schedRet.op = "ReviewCard"
    /\ schedRet.rating \in Ratings
    /\ schedCard' = schedRet.card
    /\ schedRet' = [schedRet EXCEPT !.op = "kept"]
    /\ UNCHANGED <<svcVars, drvVars, loopVars, regVars, fnVars>>

NextScheduler == Tick \/ SchedulerNewCard \/ SchedulerReviewCard \/ SchedulerKeep

SpecScheduler == Init /\ [][NextScheduler]_vars

(* ------------------------------ claims --------------------------------- *)
SubmitStep == ret'.op = "SubmitReview"
WriteErrors == {"failed to update card", "failed to create review record"}
RowsOf(cardID) == {i \in 1..Len(reviews) : reviews[i].CardID = cardID}

(* C1: a SubmitReview whose card-id is not the session's current card fails  *)
(* with a protocol-violation error and changes neither the store nor the     *)
(* session.                                                                  *)
C1_MismatchRejected ==
    [][(/\ SubmitStep
        /\ ret'.sid \in DOMAIN sessions
        /\ sessions[ret'.sid].CurrentCardID # NoCard
        /\ ret'.cardID # sessions[ret'.sid].CurrentCardID)
       => (/\ ret'.err # ""
           /\ UNCHANGED <<cards, reviews, sessions>>)]_vars

(* C2: the review commit is atomic: a card's stored FSRS state has advanced  *)
(* by exactly the reviews whose rows exist, in every reachable state.        *)
C2_CommitAtomic ==
    \A id \in CardIds : cards[id].fsrs.Reps = Cardinality(RowsOf(id))

(* C3: a SubmitReview that fails on a store write leaves the session as it   *)
(* was, and its retry leaves the card and the history as one single review   *)
(* would: repetitions advanced by one, one review row.                       *)
C3_FailedWriteRetry ==
    [][/\ (SubmitStep /\ ret'.err \in WriteErrors) => UNCHANGED sessions
       /\ (SubmitStep /\ ret'.err = "" /\ ret'.retried /\ ret'.matched)
          => (/\ cards'[ret'.cardID].fsrs.Reps = retry.reps0 + 1
              /\ Len(reviews') = retry.nrev0 + 1)]_vars

(* C5: a successful SubmitReview of the current card appends one review row  *)
(* for it, pops exactly that card from the head of the queue, adds one to    *)
(* cards-reviewed, takes one from cards-remaining and clears the current     *)
(* card; the rest of the queue keeps its order.                              *)
C5_SubmitCurrent ==
    [][(SubmitStep /\ ret'.err = "" /\ ret'.matched)
       => LET sid == ret'.sid
              before == sessions[sid]
              after == sessions'[sid]
          IN /\ reviews' = Append(reviews, reviews'[Len(reviews')])
             /\ reviews'[Len(reviews')].CardID = ret'.cardID
             /\ Head(before.cardQueue) = ret'.cardID
             /\ after.cardQueue = Tail(before.cardQueue)
             /\ after.CardsReviewed = before.CardsReviewed + 1
             /\ after.CardsRemaining = before.CardsRemaining - 1
             /\ after.CurrentCardID = NoCard]_vars

(* a current card was reviewed and two cards stay queued behind it *)
C5_Witness ==
    /\ ret.op = "SubmitReview" /\ ret.err = "" /\ ret.matched
    /\ ret.sid \in DOMAIN sessions
    /\ Len(sessions[ret.sid].cardQueue) = 2
    /\ sessions[ret.sid].CardsReviewed = 1
    /\ Len(reviews) = 1

(* C4: a review run in which the learner never quits and every call succeeds *)
(* ends with as many cards reviewed as the session was started with.         *)
C4_AllQueuedReviewed ==
    (/\ lpc = "done"
     /\ quitAt = "" /\ exitErr = "" /\ faults = 0
     /\ dres[Main].err = ""
     /\ \A i \in 1..Len(reviews) : reviews[i].ExecutionSuccess)
    => Len(reviews) = n0

(* C6: when the learner quits or interrupts while a card is current, no exec *)
(* is left running, the card has no review row and its FSRS state is as it   *)
(* was, and EndSession has been invoked.                                     *)
C6_QuitEndsSession ==
    (lpc \in {"done", "killed"} /\ quitAt # "")
    => (/\ dpc[Main] # "exec_running"
        /\ RowsOf(lcard.ID) = {}
        /\ cards[lcard.ID] = CreateCard(cards[lcard.ID])
        /\ ended)

(* C7: when Run has returned an error the loop goes on to the rating prompt, *)
(* and a valid rating is committed as a review row with success false, with  *)
(* the result's exit code if Run returned a result and with none otherwise.  *)
C7_RunErrorStillRated ==
    [][/\ (lpc = "run" /\ dpc[Main] = "idle" /\ dres[Main].err # "" /\ lpc' # lpc)
          => lpc' \in {"rating", "killed"}
       /\ (lpc = "rating" /\ lpc' = "counted" /\ dres[Main].err # "")
          => LET row == reviews'[Len(reviews')]
                 result == dres[Main].result
             IN /\ Len(reviews') = Len(reviews) + 1
                /\ row.CardID = lcard.ID
                /\ row.ExecutionSuccess = FALSE
                /\ row.HasExitCode = ~result.nil
                /\ row.HasExitCode => row.ExitCode = result.ExitCode]_vars

(* a review was committed after Run failed to launch and returned no result *)
C7_Witness ==
    /\ lpc = "counted"
    /\ dres[Main].op = "Run" /\ dres[Main].err # "" /\ dres[Main].result.nil
    /\ Len(reviews) = 1
    /\ ~reviews[1].HasExitCode /\ ~reviews[1].ExecutionSuccess

(* C8: a command whose config has network-enabled false executes in a        *)
(* container that was started with networking disabled.                      *)
C8_NoNetworkUnlessOptIn ==
    \A t \in Threads :
        (dpc[t] = "exec_running" /\ ~dcfg[t].NetworkEnabled)
        => ~containers[dcid[t]].net

(* C9: in a session started with network-enabled false every card the loop   *)
(* presents and executes has network disabled.                               *)
C9_SessionNetworkOptIn ==
    (/\ lpc \in {"ready", "run", "rating"}
     /\ lsid \in DOMAIN sessions
     /\ ~sessions[lsid].NetworkEnabled)
    => ~lcard.NetworkEnabled

(* C10: Cleanup never stops a container while an exec started in it is still *)
(* running and has not been cancelled.                                       *)
C10_CleanupWaitsForExec ==
    [][\A cid \in 1..Len(containers) :
          (containers[cid].status = "running" /\ containers'[cid].status = "stopped")
          => ~\E u \in Threads :
                 dpc[u] = "exec_running" /\ dcid[u] = cid /\ ~cancelled[u]]_vars

(* C11: concurrent Run calls on one driver are serialized: no two execs of   *)
(* the driver are in flight together.                                        *)
C11_ExecsSerialized ==
    Cardinality({t \in Threads : dpc[t] = "exec_running"}) <= 1

(* C12: while the held container is running and no Cleanup takes it, the     *)
(* identity the driver holds, which is the one Run returns, stays the same;  *)
(* a Run on a driver that holds nothing starts a container whose identity is *)
(* new; and a result carries the identity its exec was given.                *)
C12_SessionReuseIdentity ==
    [][/\ (/\ containerID # NoContainer
           /\ containers[containerID].status = "running"
           /\ ~\E t \in Threads : dpc[t] = "idle" /\ dpc'[t] = "stop")
          => containerID' = containerID
       /\ \A t \in Threads :
             (dpc[t] = "ensure" /\ dpc'[t] = "read_id" /\ containerID = NoContainer)
             => (containerID' # NoContainer /\ containerID' \notin 1..Len(containers))
       /\ \A t \in Threads :
             (dres'[t] # dres[t] /\ dres'[t].op = "Run" /\ ~dres'[t].result.nil)
             => dres'[t].result.ContainerID = dcid[t]]_vars

(* a step in which goroutine t calls Cleanup *)
CleanupCall(t) ==
    /\ dpc[t] = "idle"
    /\ dres'[t].op = "Cleanup"
    /\ <<dcid[t], dres[t], cancelled[t], dpc[t]>> # <<dcid'[t], dres'[t], cancelled'[t], dpc'[t]>>

(* C13: Cleanup is idempotent: a Cleanup leaves the driver holding nothing,  *)
(* and a Cleanup on a driver that holds nothing, as after a first Cleanup,   *)
(* returns success at once, with no stop and no remove.                      *)
C13_CleanupIdempotent ==
    [][\A t \in Threads :
          CleanupCall(t)
          => /\ containerID' = NoContainer
             /\ containerID = NoContainer
                => (/\ dpc'[t] = "idle"
                    /\ dres'[t] = DRet("Cleanup", NilResult, "")
                    /\ containers' = containers)]_vars

(* a Cleanup that found nothing to do, after an earlier one removed a container *)
C13_Witness ==
    \E t \in Threads :
        /\ dpc[t] = "idle" /\ dres[t] = DRet("Cleanup", NilResult, "")
        /\ dcid[t] = NoContainer
        /\ containerID = NoContainer
        /\ \E cid \in 1..Len(containers) : containers[cid].status = "removed"

C15_HealthCheckBeforeExec ==
    [][/\ \A t \in Threads :
             /\ (dpc[t] = "ensure" /\ dpc'[t] = "read_id")
                => (/\ containerID' # NoContainer
                    /\ containers'[containerID'].status = "running"
                    /\ (containerID = NoContainer
                          \/ containers[containerID].status # "running")
                       => (/\ containerID' = Len(containers) + 1
                           /\ Len(containers') = Len(containers) + 1))
             /\ (dpc[t] = "ensure" /\ dpc'[t] # "ensure" /\ containerID # NoContainer
                   /\ containers[containerID].status # "running")
                => containerID' # containerID
             /\ (dpc[t] = "read_id" /\ dpc'[t] = "exec_start") => dcid'[t] = containerID
             /\ (dpc[t] # "exec_running" /\ dpc'[t] = "exec_running")
                => dpc[t] = "exec_start"
       /\ containerID' \in {containerID, NoContainer, Len(containers) + 1}]_vars

(* a command runs in a second container after the first one had exited *)
C15_Witness ==
    /\ Len(containers) = 2
    /\ containers[1].status = "exited"
    /\ \E t \in Threads : dpc[t] = "exec_running" /\ dcid[t] = 2

C17_InvalidConfigRejected ==
    [][\A t \in Threads :
          (<<dpc[t], dres[t], cancelled[t]>> # <<dpc'[t], dres'[t], cancelled'[t]>>
           /\ dpc[t] = "idle" /\ dres'[t].op = "Run")
          => \A config \in Configs :
          Run(t, config)
          => LET invalid == \/ config.Image = ""
                            \/ config.CommandLen = 0
                            \/ config.Timeout <= 0
             IN /\ (Validate(config) # "") <=> invalid
                /\ invalid => (/\ dres'[t] = DRet("Run", NilResult, "invalid config")
                               /\ dpc'[t] = "idle"
                               /\ UNCHANGED <<containerID, containers, dcid, dcfg>>)
                /\ ~invalid => (dpc'[t] = "ensure" /\ dres'[t].err = "")]_vars

(* a Run was rejected as invalid while the driver holds a running container *)
C17_Witness ==
    \E t \in Threads :
        /\ dpc[t] = "idle"
        /\ dres[t] = DRet("Run", NilResult, "invalid config")
        /\ containerID # NoContainer
        /\ containers[containerID].status = "running"

(* the cards of a queue *)
QueueSet(q) == {q[i] : i \in 1..Len(q)}
IsNew(id) == cards[id].fsrs.Reps = 0
IsDue(id) == cards[id].fsrs.Reps > 0 /\ cards[id].fsrs.Due <= now

(* C18: with no cap, StartSession queues of the fetched cards: with new-only *)
(* the new ones, with due-only the reviewed ones that are due, with both the *)
(* intersection of the two, with neither every new card and every reviewed   *)
(* card that is due; each once.                                              *)
C18_QueueFilters ==
    [][nextSid' # nextSid => \A opts \in SessionOptions :
          (opts.MaxCards = 0 /\ StartSession(opts))
          => LET q == IF ret'.err = "" THEN sessions'[ret'.sid].cardQueue ELSE <<>>
                 want == {id \in CardIds :
                            IF opts.NewCardsOnly /\ opts.ReviewCardsOnly
                            THEN IsNew(id) /\ IsDue(id)
                            ELSE IF opts.NewCardsOnly THEN IsNew(id)
                            ELSE IF opts.ReviewCardsOnly THEN IsDue(id)
                            ELSE IsNew(id) \/ IsDue(id)}
             IN /\ QueueSet(q) = want
                /\ Len(q) = Cardinality(want)]_vars

(* a session was queued that holds a reviewed card that is due and leaves    *)
(* out a reviewed card that is not                                           *)
C18_Witness ==
    /\ ret.op = "StartSession" /\ ret.err = "" /\ ret.sid \in DOMAIN sessions
    /\ \E id \in QueueSet(sessions[ret.sid].cardQueue) : IsDue(id)
    /\ \E id \in CardIds \ QueueSet(sessions[ret.sid].cardQueue) :
          cards[id].fsrs.Reps > 0 /\ cards[id].fsrs.Due > now

(* C19, as stated: a new card fetched for the session is kept in the queue   *)
(* whether or not due-only is set.                                           *)
C19_NewKeptWithDueOnly ==
    [][nextSid' # nextSid => \A opts \in SessionOptions :
          (opts.MaxCards = 0 /\ StartSession(opts))
          => LET q == IF ret'.err = "" THEN sessions'[ret'.sid].cardQueue ELSE <<>>
             IN \A id \in CardIds : IsNew(id) => id \in QueueSet(q)]_vars

(* C19, amended: a new card fetched for the session is kept exactly when     *)
(* due-only is not set, whatever new-only is; with due-only set it is        *)
(* dropped.                                                                  *)
C19_NewKeptUnlessDueOnly ==
    [][nextSid' # nextSid => \A opts \in SessionOptions :
          (opts.MaxCards = 0 /\ StartSession(opts))
          => LET q == IF ret'.err = "" THEN sessions'[ret'.sid].cardQueue ELSE <<>>
             IN \A id \in CardIds :
                   IsNew(id) => (id \in QueueSet(q) <=> ~opts.ReviewCardsOnly)]_vars

(* a session was queued with its one due reviewed card and without the two   *)
(* new cards of the store                                                    *)
C19_Witness ==
    /\ ret.op = "StartSession" /\ ret.err = "" /\ ret.sid \in DOMAIN sessions
    /\ Len(sessions[ret.sid].cardQueue) = 1
    /\ IsDue(sessions[ret.sid].cardQueue[1])
    /\ Cardinality({id \in CardIds : IsNew(id)}) = 2

(* C20: the queue of a started session holds cards that passed the filters, *)
(* each once; it is as long as max-cards allows when max-cards is positive   *)
(* and holds every card that passed when max-cards is 0; unshuffled it is    *)
(* the head of the filtered cards in their order; and cards-remaining is its *)
(* length.                                                                   *)
C20_MaxCards ==
    [][(nextSid' # nextSid /\ ret'.err = "") => \A opts \in SessionOptions :
          StartSession(opts)
          => LET q == sessions'[ret'.sid].cardQueue
                 filtered == queryCardsForSession(opts)
             IN /\ opts.MaxCards > 0 => Len(q) <= opts.MaxCards
                /\ (opts.MaxCards > 0 /\ Len(filtered) >= opts.MaxCards)
                   => Len(q) = opts.MaxCards
                /\ (opts.MaxCards = 0 \/ Len(filtered) < opts.MaxCards)
                   => Len(q) = Len(filtered)
                /\ QueueSet(q) \subseteq QueueSet(filtered)
                /\ Cardinality(QueueSet(q)) = Len(q)
                /\ ~opts.ShuffleCards => q = SubSeq(filtered, 1, Len(q))
                /\ sessions'[ret'.sid].CardsRemaining = Len(q)]_vars

(* a shuffled queue cut to one card holds the last of three new cards: the   *)
(* cut came after the shuffle                                                *)
C20_Witness ==
    /\ ret.op = "StartSession" /\ ret.err = "" /\ ret.sid \in DOMAIN sessions
    /\ sessions[ret.sid].cardQueue = <<NumCards>>
    /\ sessions[ret.sid].CardsRemaining = 1
    /\ \A id \in CardIds : IsNew(id)

(* the reviewed cards that are due at time t *)
DueAt(t) == {id \in CardIds : cards[id].fsrs.Reps > 0 /\ cards[id].fsrs.Due <= t}

(* C21, as stated: over one and the same store, two sessions started with    *)
(* identical options and no shuffle hold identical queues.  No step of       *)
(* SpecPair writes the store.                                                *)
C21_SameOptionsSameQueue ==
    \A i, j \in DOMAIN started :
        (started[i].Options = started[j].Options /\ ~started[i].Options.ShuffleCards)
        => started[i].cardQueue = started[j].cardQueue

(* C21, amended: over one and the same store, two sessions started with      *)
(* identical options and no shuffle, at times at which the same reviewed     *)
(* cards are due, hold identical queues.                                     *)
C21_SameOptionsSameDueSameQueue ==
    \A i, j \in DOMAIN started :
        (/\ started[i].Options = started[j].Options
         /\ ~started[i].Options.ShuffleCards
         /\ DueAt(started[i].StartedAt) = DueAt(started[j].StartedAt))
        => started[i].cardQueue = started[j].cardQueue

(* two unshuffled sessions with the same options were started at different   *)
(* times and hold the same queue of two cards, a reviewed one among them     *)
C21_Witness ==
    /\ Len(started) = 2
    /\ started[1].Options = started[2].Options
    /\ ~started[1].Options.ShuffleCards
    /\ started[1].StartedAt < started[2].StartedAt
    /\ started[1].cardQueue = started[2].cardQueue
    /\ Len(started[1].cardQueue) = 2
    /\ \E id \in QueueSet(started[1].cardQueue) : ~IsNew(id)

(* the cards that pass the filters of opts: new or due, and as the flags ask *)
Passing(opts) ==
    {id \in CardIds : /\ IsNew(id) \/ IsDue(id)
                      /\ opts.NewCardsOnly => IsNew(id)
                      /\ opts.ReviewCardsOnly => IsDue(id)}

(* C22: StartSession fails with the no-cards-available error when no card    *)
(* passes the filters, and only then; a StartSession that fails registers no *)
(* session: the coordinator's sessions are as they were.                     *)
C22_NoCardsNoSession ==
    [][/\ (nextSid' # nextSid /\ ret'.err = "")
          => (/\ Len(started') = Len(started) + 1
              /\ Passing(started'[Len(started')].Options) # {}
              /\ DOMAIN sessions' = DOMAIN sessions \cup {ret'.sid})
       /\ (nextSid' # nextSid /\ ret'.err # "")
          => \A opts \in PairOptions :
                StartSession(opts)
                => (/\ Passing(opts) = {}
                    /\ ret'.op = "StartSession"
                    /\ ret'.err = "no cards available"
                    /\ sessions' = sessions
                    /\ started' = started)]_vars

(* a second StartSession failed for want of cards, over a store that holds a *)
(* new card, and the first session is still the only one                     *)
C22_Witness ==
    /\ ret.op = "StartSession" /\ ret.err = "no cards available"
    /\ nextSid = MaxPairSessions
    /\ DOMAIN sessions = {1}
    /\ Len(started) = 1
    /\ \E id \in CardIds : IsNew(id)

(* C23: GetNextCard returns the card at the head of the queue and removes    *)
(* nothing: the queue, both counters, the store and the other sessions are   *)
(* as they were, so a second call straight after returns the same card; on   *)
(* an empty queue it fails with the queue-exhausted error and leaves the     *)
(* session as it was.                                                        *)
C23_GetNextCardPeeks ==
    [][ret'.op = "GetNextCard"
       => LET sid == ret'.sid IN
          /\ UNCHANGED <<cards, reviews>>
          /\ DOMAIN sessions' = DOMAIN sessions
          /\ \A s \in DOMAIN sessions : s # sid => sessions'[s] = sessions[s]
          /\ sid \in DOMAIN sessions
             => LET before == sessions[sid]
                    after == sessions'[sid]
                IN /\ after.cardQueue = before.cardQueue
                   /\ after.CardsReviewed = before.CardsReviewed
                   /\ after.CardsRemaining = before.CardsRemaining
                   /\ ret'.err = ""
                      => (/\ before.cardQueue # <<>>
                          /\ ret'.cardID = Head(before.cardQueue)
                          /\ ret'.card.ID = Head(before.cardQueue))
                   /\ before.cardQueue = <<>>
                      => (ret'.err = "no more cards" /\ after = before)
                   /\ (before.cardQueue # <<>> /\ faults' = faults) => ret'.err = ""
                   /\ (/\ ret.op = "GetNextCard" /\ ret.sid = sid
                       /\ ret.err = "" /\ ret'.err = "")
                      => ret'.cardID = ret.cardID]_vars

(* after one review GetNextCard returned the head of a queue that still      *)
(* holds two cards, the returned one first                                   *)
C23_Witness ==
    /\ ret.op = "GetNextCard" /\ ret.err = ""
    /\ ret.sid \in DOMAIN sessions
    /\ sessions[ret.sid].CardsReviewed = 1
    /\ Len(sessions[ret.sid].cardQueue) = 2
    /\ Head(sessions[ret.sid].cardQueue) = ret.cardID
    /\ sessions[ret.sid].CurrentCardID = ret.cardID

(* GetNextCard failed on a queue that two reviews had emptied *)
C23_Exhausted ==
    /\ ret.op = "GetNextCard" /\ ret.err = "no more cards"
    /\ ret.sid \in DOMAIN sessions
    /\ sessions[ret.sid].cardQueue = <<>>
    /\ sessions[ret.sid].CardsReviewed = MaxReviews

(* the session ids that were handed out and are no longer registered *)
Gone == (1..nextSid) \ DOMAIN sessions

(* C24: cards-reviewed starts at 0, grows by one with every successful       *)
(* SubmitReview of the session and with nothing else, and EndSession returns *)
(* it in the statistics and removes the session, leaving the store and the   *)
(* other sessions as they were; a removed session never comes back, and      *)
(* every GetNextCard, SubmitReview or EndSession with its id fails and       *)
(* changes neither the store nor any session.                                *)
C24_EndSessionRemoves ==
    [][/\ \A s \in DOMAIN sessions' :
             sessions'[s].CardsReviewed =
                IF s \notin DOMAIN sessions THEN 0
                ELSE IF SubmitStep /\ ret'.err = "" /\ ret'.sid = s
                THEN sessions[s].CardsReviewed + 1
                ELSE sessions[s].CardsReviewed
       /\ (ret'.op = "EndSession" /\ ret'.sid \in DOMAIN sessions)
          => (/\ ret'.err = ""
              /\ ~ret'.stats.nil
              /\ ret'.stats.CardsReviewed = sessions[ret'.sid].CardsReviewed
              /\ DOMAIN sessions' = DOMAIN sessions \ {ret'.sid}
              /\ \A s \in DOMAIN sessions' : sessions'[s] = sessions[s]
              /\ UNCHANGED <<cards, reviews>>)
       /\ \A s \in Gone : s \notin DOMAIN sessions'
       /\ (ret'.op \in {"GetNextCard", "SubmitReview", "EndSession"} /\ ret'.sid \in Gone)
          => (/\ ret'.err # ""
              /\ ret'.stats.nil
              /\ UNCHANGED <<cards, reviews, sessions>>)]_vars

(* a SubmitReview with the id of the ended first session failed, while the   *)
(* second session has a current card and one review counted                  *)
C24_Witness ==
    /\ ret.op = "SubmitReview" /\ ret.err = "session not found" /\ ret.sid = 1
    /\ DOMAIN sessions = {MaxPairSessions}
    /\ sessions[MaxPairSessions].CardsReviewed = 1
    /\ sessions[MaxPairSessions].CurrentCardID # NoCard
    /\ Len(reviews) = 1

(* the review rows with a given rating, and the sum of all ratings *)
RowsRated(rating) == {i \in 1..Len(reviews) : reviews[i].Rating = rating}
RECURSIVE SumRatings(_)
SumRatings(i) == IF i = 0 THEN 0 ELSE reviews[i].Rating + SumRatings(i - 1)

(* C25: the statistics EndSession returned agree with the review rows of the *)
(* session, which in Spec are all the rows there are: new cards plus review  *)
(* cards is cards reviewed, each per-rating count is the number of rows with *)
(* that rating, and the average rating is the mean of the rows' ratings.     *)
C25_StatsAgreeWithRows ==
    (ret.op = "EndSession" /\ ret.err = "")
    => (/\ ret.stats.NewCards + ret.stats.ReviewCards = ret.stats.CardsReviewed
        /\ ret.stats.AgainCount = Cardinality(RowsRated(Again))
        /\ ret.stats.HardCount = Cardinality(RowsRated(Hard))
        /\ ret.stats.GoodCount = Cardinality(RowsRated(Good))
        /\ ret.stats.EasyCount = Cardinality(RowsRated(Easy))
        /\ ret.stats.AverageRating * Len(reviews) = SumRatings(Len(reviews)))

(* C26: a rating outside Again..Easy given to the scheduler's review         *)
(* operation fails with the invalid-rating error and leaves the caller's     *)
(* card as it was.                                                           *)
C26_SchedulerRejectsBadRating ==
    [][(schedRet'.op = "ReviewCard" /\ schedRet'.rating \notin Ratings)
       => (schedRet'.err = "invalid rating" /\ schedCard' = schedCard)]_vars

(* C26, the part about SubmitReview: with a rating outside Again..Easy it    *)
(* fails, with the invalid-rating error when the session and the card        *)
(* exist, and the cards, the review history and the sessions are as they     *)
(* were.                                                                     *)
C26_SubmitRejectsBadRating ==
    [][SubmitStep
       => \A sid \in SessionIds, cardID \in 0..NumCards,
             fault \in {"none", "get", "update", "create"} :
             SubmitReview(sid, cardID, BadRating, NoExec, fault)
             => (/\ ret'.err # ""
                 /\ UNCHANGED <<cards, reviews, sessions>>
                 /\ (sid \in DOMAIN sessions /\ CardExists(cardID) /\ fault # "get")
                    => ret'.err = "invalid rating")]_vars

(* SubmitReview refused a rating for the current card of a session *)
C26_SubmitWitness ==
    /\ ret.op = "SubmitReview" /\ ret.err = "invalid rating" /\ ret.matched
    /\ sessions[ret.sid].CurrentCardID = ret.cardID
    /\ Len(reviews) = 1

(* C27: every review row written records as its before values the due,      *)
(* stability and difficulty of the card as stored just before the review,    *)
(* and as its after values the ones the scheduler produces for that card and *)
(* rating, which are the ones the same commit stores on the card.            *)
C27_RowsFaithful ==
    [][Len(reviews') # Len(reviews)
       => LET row == reviews'[Len(reviews')]
              before == cards[row.CardID].fsrs
              after == cards'[row.CardID].fsrs
              scheduled == ReviewCard(before, row.Rating)
          IN /\ reviews' = Append(reviews, row)
             /\ row.Rating \in Ratings
             /\ row.FSRSDueBefore = before.Due
             /\ row.FSRSStabilityBefore = before.Stability
             /\ row.FSRSDifficultyBefore = before.Difficulty
             /\ row.FSRSDueAfter = scheduled.Due
             /\ row.FSRSStabilityAfter = scheduled.Stability
             /\ row.FSRSDifficultyAfter = scheduled.Difficulty
             /\ after = scheduled
             /\ \A id \in CardIds \ {row.CardID} : cards'[id] = cards[id]]_vars

(* a card was reviewed twice: the second row starts from the values the      *)
(* first one ended with, and moves the difficulty                            *)
C27_Witness ==
    /\ Len(reviews) = 2
    /\ reviews[1].CardID = reviews[2].CardID
    /\ reviews[2].FSRSStabilityBefore = reviews[1].FSRSStabilityAfter
    /\ reviews[2].FSRSDifficultyBefore = reviews[1].FSRSDifficultyAfter
    /\ reviews[2].FSRSDueBefore = reviews[1].FSRSDueAfter
    /\ reviews[2].FSRSDifficultyAfter # reviews[2].FSRSDifficultyBefore
    /\ cards[reviews[2].CardID].fsrs.Difficulty = reviews[2].FSRSDifficultyAfter

(* C28: within a session the review rows are written in the order in which   *)
(* the cards leave the queue: a step writes a review row for a session       *)
(* exactly when it takes the card at the head of that session's queue, one   *)
(* row for one card, and the row is that card's.                             *)
C28_RowsInDequeueOrder ==
    [][/\ (SubmitStep /\ Len(reviews') # Len(reviews))
          => LET sid == ret'.sid
                 row == reviews'[Len(reviews')]
             IN /\ reviews' = Append(reviews, row)
                /\ sessions[sid].cardQueue # <<>>
                /\ row.CardID = Head(sessions[sid].cardQueue)
                /\ sessions'[sid].cardQueue = Tail(sessions[sid].cardQueue)
       /\ \A s \in DOMAIN sessions \cap DOMAIN sessions' :
             sessions'[s].cardQueue # sessions[s].cardQueue
             => (/\ SubmitStep /\ ret'.sid = s
                 /\ Len(reviews') = Len(reviews) + 1
                 /\ sessions'[s].cardQueue = Tail(sessions[s].cardQueue)
                 /\ reviews'[Len(reviews')].CardID = Head(sessions[s].cardQueue))]_vars

(* C29: for every stored card reps=0, state New and a null last review go    *)
(* together; a card CreateCard stores has the new-card FSRS state whatever   *)
(* the caller supplied; and a successful first review, with any rating,      *)
(* leaves the card with one repetition and a state other than New.           *)
C29_RepsStateCoupled ==
    [][/\ \A id \in DOMAIN cards' :
             LET f == cards'[id].fsrs IN
             /\ (f.Reps = 0) <=> (f.State = StNew)
             /\ (f.State = StNew) <=> (f.LastReview = NoTime)
       /\ Len(cards') # Len(cards)
          => LET f == cards'[Len(cards')].fsrs IN
             /\ cards' = Append(cards, cards'[Len(cards')])
             /\ f.Reps = 0 /\ f.Lapses = 0 /\ f.State = StNew /\ f.LastReview = NoTime
             /\ f.Stability = 0 /\ f.Difficulty = 0 /\ f.Due = now
       /\ (SubmitStep /\ ret'.err = "" /\ cards[ret'.cardID].fsrs.Reps = 0)
          => LET f == cards'[ret'.cardID].fsrs IN
             /\ f.Reps = 1 /\ f.State # StNew /\ f.LastReview = now
             /\ reviews'[Len(reviews')].Rating \in Ratings]_vars

(* a card created after the session was queued was reviewed for the first   *)
(* time, rated Again                                                         *)
C29_Witness ==
    /\ ret.op = "SubmitReview" /\ ret.err = "" /\ ~ret.matched
    /\ ret.sid \in DOMAIN sessions
    /\ ret.cardID \notin QueueSet(sessions[ret.sid].cardQueue)
    /\ Len(reviews) = 1 /\ reviews[1].Rating = Again
    /\ cards[ret.cardID].fsrs.Reps = 1
    /\ cards[ret.cardID].fsrs.State = StLearning

(* ------------------------------------------------------------------------ *)
(* C30: under any interleaving of concurrent Register, Get, Available and    *)
(* IsRegistered calls, registering a name that is already registered panics  *)
(* and leaves the registry unchanged; a name stays mapped to the factory of  *)
(* its first successful registration; only a successful Register changes the *)
(* map; IsRegistered answers true exactly for the names in the map at the    *)
(* time of its lookup; Get of a name that is not in the map at the time of   *)
(* its lookup returns the not-found error; and the writer holds the mutex    *)
(* alone.                                                                    *)
RegistryRan(t, op) == rpc[t] = "locked" /\ rcall[t].op = op /\ rpc'[t] # "locked"
C30_RegistryStep ==
    /\ regMu.writer # 0 => regMu.readers = {}
    /\ \A n \in DOMAIN drivers : n \in DOMAIN drivers' /\ drivers'[n] = drivers[n]
    /\ drivers' # drivers =>
          \E t \in Threads : RegistryRan(t, "Register") /\ rres'[t].err = ""
    /\ \A t \in Threads :
          /\ RegistryRan(t, "Register") =>
                /\ regMu.writer = t
                /\ rcall[t].name \in DOMAIN drivers =>
                      /\ rres'[t].err \in {"panic: called twice", "panic: factory is nil"}
                      /\ rcall[t].factory # NoFactory => rres'[t].err = "panic: called twice"
                      /\ drivers' = drivers
                /\ rres'[t].err # "" => drivers' = drivers
                /\ rres'[t].err = "" =>
                      /\ rcall[t].name \notin DOMAIN drivers
                      /\ DOMAIN drivers' = DOMAIN drivers \cup {rcall[t].name}
                      /\ drivers'[rcall[t].name] = rcall[t].factory
                      /\ rcall[t].factory # NoFactory
          /\ RegistryRan(t, "IsRegistered") =>
                rres'[t].value = (rcall[t].name \in DOMAIN drivers)
          /\ RegistryRan(t, "Available") => rres'[t].value = DOMAIN drivers
          /\ RegistryRan(t, "Get") =>
                /\ rcall'[t].exists = (rcall[t].name \in DOMAIN drivers)
                /\ rcall'[t].exists => rcall'[t].factory = drivers[rcall[t].name]
          /\ (rpc[t] = "unlocked" /\ rpc'[t] = "idle") =>
                /\ ~rcall[t].exists => rres'[t].err = "not found"
                /\ rcall[t].exists =>
                      /\ rres'[t].err = ""
                      /\ rres'[t].value = drivers[rcall[t].name]
C30_RegistryKeepsFirst == [][C30_RegistryStep]_vars

(* a second Register of a name has panicked while another goroutine's Get,   *)
(* which looked the name up before it was registered, has yet to return; the *)
(* name is still mapped to the first factory                                 *)
C30_Witness ==
    \E t, u \in Threads, n \in DriverNames :
        /\ t # u
        /\ rres[t] = RegRet("Register", n, NoFactory, "panic: called twice")
        /\ rpc[u] = "unlocked" /\ rcall[u].name = n /\ ~rcall[u].exists
        /\ n \in DOMAIN drivers /\ drivers[n] = 1


(* ------------------------------------------------------------------------ *)
(* the lower-case spelling of a piece of text *)
ToLower(p) ==
    CASE p = "A" -> "a" [] p = "GAIN" -> "gain" [] OTHER -> p
RECURSIVE LowerLine(_)
LowerLine(s) == IF s = <<>> THEN s ELSE <<ToLower(Head(s))>> \o LowerLine(Tail(s))
(* the rating the case-insensitive reading gives a line; 0 is a rejection *)
AnyCaseRating(input) ==
    LET text == Join(LowerLine(TrimSpace(input))) IN
    CASE text \in {"1", "again", "a"} -> Again
      [] text \in {"2", "hard", "h"} -> Hard
      [] text \in {"3", "good", "g"} -> Good
      [] text \in {"4", "easy", "e"} -> Easy
      [] OTHER -> 0

(* C31: ParseRating, with surrounding whitespace ignored, accepts exactly    *)
(* the integers 1..4, the words Again/Hard/Good/Easy in any letter case and  *)
(* the letters a/h/g/e in either case, mapping each to its rating, and       *)
(* rejects every other input.                                                *)
C31_ParseAnyCase ==
    fnRet.op = "ParseRating" => fnRet.val = AnyCaseRating(fnArg)

(* what the code does keep: the inputs the switch lists are accepted with    *)
(* surrounding whitespace ignored, and a rejected input is none of them      *)
C31_ParseListed ==
    fnRet.op = "ParseRating" =>
        /\ Join(TrimSpace(fnArg)) \in {"1", "4", "a", "A", "again", "AGAIN", "Again"}
              => fnRet.val = AnyCaseRating(fnArg) /\ fnRet.val # 0
        /\ fnRet.val # 0 => fnRet.val = AnyCaseRating(fnArg)
C31_ListedWitness ==
    /\ fnRet.op = "ParseRating" /\ fnRet.val = Again
    /\ fnArg = <<" ", "A", "gain">>


(* ------------------------------------------------------------------------ *)
(* C32: the card GetNextCard returns carries, for each of image, timeout,    *)
(* network-enabled and capabilities, the stored card's own override when one *)
(* is set and the deck's default otherwise.                                  *)
C32_OverrideOrDefault ==
    (ret.op = "GetNextCard" /\ ret.err = "") =>
        LET row == cards[ret.cardID] IN
        /\ ret.card.ID = ret.cardID
        /\ ret.card.Image = IF row.Image = "unset" THEN deck.DefaultImage ELSE row.Image
        /\ ret.card.Timeout =
              IF row.Timeout = NoTimeout THEN deck.DefaultTimeout ELSE row.Timeout
        /\ ret.card.NetworkEnabled =
              IF row.NetworkEnabled = "unset" THEN deck.DefaultNetworkEnabled
              ELSE row.NetworkEnabled = "true"
        /\ ret.card.Capabilities =
              IF row.Capabilities = "unset" THEN Unmarshal(deck.DefaultCapabilities)
              ELSE Unmarshal(row.Capabilities)

(* GetNextCard returned a card that overrides all four settings of a deck    *)
(* whose defaults all differ from the overrides                              *)
C32_Witness ==
    /\ ret.op = "GetNextCard" /\ ret.err = "" /\ ret.cardID = 1
    /\ deck.DefaultImage = "busybox" /\ deck.DefaultCapabilities = "[\"CHOWN\"]"
    /\ cards[1].Image = "ubuntu" /\ cards[1].Timeout = 0
    /\ cards[1].NetworkEnabled = "false" /\ cards[1].Capabilities = "[\"NET_ADMIN\"]"
    /\ ret.card.Image = "ubuntu" /\ ret.card.Timeout = 0 /\ ~ret.card.NetworkEnabled
    /\ ret.card.Capabilities = <<"NET_ADMIN">>


(* ------------------------------------------------------------------------ *)
(* C34: the deck lint subcommand exits with status 0 when validation finds   *)
(* no errors and with a non-zero status whenever the deck has validation     *)
(* errors, including when the deck directory does not exist.                 *)
C34_LintExitStatus ==
    (fnRet.op = "lint" /\ fnArg.nargs <= 1) =>
        LET result == ValidateDeck(fnArg.deck) IN
        /\ (result.err = "" /\ result.Valid) => fnRet.val = 0
        /\ (result.err = "" /\ ~result.Valid) => fnRet.val # 0


(* ------------------------------------------------------------------------ *)
(* C35: for every configuration key the effective value comes from the       *)
(* highest-precedence source that sets it, in the order command-line flag >  *)
(* environment variable > configuration file > built-in default; a value     *)
(* given with --database-path overrides the environment, the file and the    *)
(* default.                                                                  *)
C35_FlagEnvFileDefault ==
    fnRet.op = "Load" =>
        \A k \in DOMAIN fnRet.val :
            fnRet.val[k] = IF fnArg.flags[k] # "unset" THEN fnArg.flags[k]
                           ELSE IF fnArg.env[k] # "unset" THEN fnArg.env[k]
                           ELSE IF fnArg.file[k] # "unset" THEN fnArg.file[k]
                           ELSE "default"

(* what the code does keep: below the flags the order is environment > file  *)
(* > default                                                                 *)
C35_EnvFileDefault ==
    fnRet.op = "Load" =>
        \A k \in DOMAIN fnRet.val :
            fnRet.val[k] = IF fnArg.env[k] # "unset" THEN fnArg.env[k]
                           ELSE IF fnArg.file[k] # "unset" THEN fnArg.file[k]
                           ELSE "default"


(* ------------------------------------------------------------------------ *)
(* C36: in every state of an active session reached by any sequence of       *)
(* GetNextCard and SubmitReview calls, CardsRemaining equals the length of   *)
(* the queue and is never negative, and CardsReviewed plus CardsRemaining    *)
(* stays the length the queue had at StartSession; the Session handed to the *)
(* caller is the one the service keeps, so this is what the caller reads.    *)
C36_SessionCounters ==
    [][\A s \in DOMAIN sessions' :
          /\ sessions'[s].CardsRemaining = Len(sessions'[s].cardQueue)
          /\ sessions'[s].CardsRemaining >= 0
          /\ IF s \in DOMAIN sessions
             THEN sessions'[s].CardsReviewed + sessions'[s].CardsRemaining
                     = sessions[s].CardsReviewed + sessions[s].CardsRemaining
             ELSE sessions'[s].CardsReviewed = 0]_vars

(* the same reading of the counters where the only caller is the review      *)
(* command, which submits the card it was handed                             *)
C36_LoopCounters ==
    [][\A s \in DOMAIN sessions' :
          sessions'[s].CardsRemaining = Len(sessions'[s].cardQueue)]_vars


(* ------------------------------------------------------------------------ *)
(* C37: every exec a Run issues targets the non-empty container identity     *)
(* that the same Run's ensure step started or verified as running, under any *)
(* interleaving with concurrent Cleanup or Run calls: from the return of     *)
(* ensureContainer until execInContainer copies it, d.containerID is not     *)
(* empty and does not change, and the copy is the identity the exec uses.    *)
C37_ExecTargetsEnsured ==
    [][\A t \in Threads :
          dpc[t] = "read_id" =>
             /\ containerID # NoContainer
             /\ dpc'[t] = "read_id" => containerID' = containerID
             /\ dpc'[t] = "exec_start" =>
                   dcid'[t] = containerID /\ dcid'[t] # NoContainer]_vars


(* ------------------------------------------------------------------------ *)
(* C38: a driver never forgets a container that still exists: whenever a     *)
(* Cleanup returns success while no other call is under way, no container    *)
(* the driver started remains unremoved.                                     *)
C38_NothingLeftBehind ==
    [][\A t \in Threads :
          (/\ dpc[t] \in {"idle", "rm"} /\ dpc'[t] = "idle"
           /\ dres'[t] = DRet("Cleanup", NilResult, "")
           /\ dres'[t] # dres[t] \/ dpc[t] = "rm"
           /\ \A u \in Threads : dpc'[u] = "idle")
          => \A c \in DOMAIN containers' : containers'[c].status = "removed"]_vars


(* ------------------------------------------------------------------------ *)
(* C39: every command executes in a container launched from the image named *)
(* in that command's exec-config, so the image a result reports is the image *)
(* of the container that ran the command, for any sequence of Runs with      *)
(* differing images on one driver.                                           *)
C39_ImageOfResult ==
    \A t \in Threads :
        (/\ dres[t].op = "Run" /\ ~dres[t].result.nil
         /\ dres[t].result.ExitCode \in {0, 1})
        => containers[dres[t].result.ContainerID].image = dres[t].result.ImageUsed

(* ------------------------------------------------------------------------ *)
(* C40: the deck validator reports a circular dependency exactly when the   *)
(* graph of prerequisites over the cards of the deck has a cycle, a card    *)
(* that names itself included, and its search ends: it enters hasCycle at   *)
(* most once for every card key of the deck.                                *)
DeckKeys(cardSpecs) == {cardSpecs[i].Key : i \in 1..Len(cardSpecs)}

PrereqEdges(cardSpecs) ==
    {e \in DeckKeys(cardSpecs) \X DeckKeys(cardSpecs) :
        \E i \in 1..Len(cardSpecs) :
            /\ cardSpecs[i].Key = e[1]
            /\ \E j \in 1..Len(cardSpecs[i].Prerequisites) :
                  Join(TrimSpace(cardSpecs[i].Prerequisites[j])) = e[2]}

HasCircularDependency(cardSpecs) ==
    LET edges == PrereqEdges(cardSpecs)
        after(keys) == {e[2] : e \in {f \in edges : f[1] \in keys}}
        RECURSIVE reach(_, _)
        reach(keys, n) == IF n = 0 THEN keys ELSE reach(keys \cup after(keys), n - 1)
    IN \E k \in DeckKeys(cardSpecs) : k \in reach(after({k}), Cardinality(DeckKeys(cardSpecs)))

C40_CycleReported ==
    fnRet.op = "validateDependencyGraph" =>
        /\ (fnRet.val.CARD004 # <<>>) <=> HasCircularDependency(fnArg.cards)
        /\ fnRet.val.calls <= Cardinality(DeckKeys(fnArg.cards))

C40_Witness ==
    /\ fnRet.op = "validateDependencyGraph"
    /\ fnRet.val.CARD004 # <<>>
    /\ \E i \in 1..Len(fnArg.cards) :
          <<fnArg.cards[i].Key, fnArg.cards[i].Key>> \in PrereqEdges(fnArg.cards)

====
